---- MODULE Spec2Model ----
(***************************************************************************)
(* Clauder: usage accounting and the limit pause/resume scheduler.         *)
(*                                                                         *)
(* Spec        the polling scheduler of extension.ts (activate,            *)
(*             updateStatusBar, the refresh / resume / countdown timers).  *)
(*             One time unit is one second.                                *)
(* SpecLimit   getLimitReset as a pure function of a remote snapshot.      *)
(* SpecWindow  getWindowStart as a pure function of an event set and a     *)
(*             reference time.  One time unit is one hour.                 *)
(* SpecPredict calculatePredictions as a pure function of its arguments.   *)
(*             One token unit is 1000 tokens, one time unit one minute.    *)
(* SpecRate    calculateUsageRate as a pure function of an event list, a   *)
(*             reference time and a sample window (same units).            *)
(* SpecUsage   calculateUsage (with calculateProjectBreakdown) as a pure   *)
(*             function of the event list, the plan and the reference      *)
(*             time.  One token unit is 1000 tokens, one time unit one     *)
(*             hour, one cost unit a thousandth of a dollar; time 0 is a   *)
(*             Sunday 00:00 UTC.                                           *)
(* SpecReader  getAllUsageEntries / parseJsonlFile: the concurrent reads   *)
(*             of the log files, their merge, and the summary computed     *)
(*             from the merged events (units of SpecUsage).                *)
(* SpecWeek    getWeekBoundaries as a pure function of the reference time  *)
(*             (one time unit is one hour, time 0 a Sunday 00:00 UTC).     *)
(* SpecCache   get_rate_limit_usage of statusline-command.sh: concurrent    *)
(*             statusline invocations refreshing the usage cache file.     *)
(* SpecPlay    SoundPlayer.play under callers that do not await it.        *)
(* SpecSound   SoundPlayer.checkRateLimitThreshold and the part of         *)
(*             updateStatusBar that feeds it.  One time unit is 30 s.      *)
(* SpecSync    SyncManager.sync with UsageTracker.getRecentSessions: the   *)
(*             sessions queued by the polls and the sync requests that     *)
(*             carry them.  The n-th usage line written has timestamp n.   *)
(***************************************************************************)
EXTENDS Integers, Sequences, FiniteSets, Bags, TLC

\* ------------------------------------------------------------------ bounds
MaxTime == 4        \* the wall clock runs over 0..MaxTime
MaxInFlight == 2    \* polls (updateStatusBar coroutines) suspended at once
MaxEntries == 2     \* events in the log handed to getWindowStart
MaxTs == 8          \* event timestamps and reference times run over 0..MaxTs
MaxFiles == 2       \* files under the log root
MaxSoundTime == 3   \* the sound player is followed for this many half minutes
MaxPending == 2     \* play() calls suspended at their await at once
MaxProcs == 2       \* statusline invocations running at once
MaxWeeks == 3       \* reference times of getWeekBoundaries run over this many weeks
MaxSessions == 3    \* usage lines written to the log while the sync manager runs
MaxSyncs == 1       \* sync requests in flight at once

\* --------------------------------------------------------------- constants
LIMIT_UTILIZATION == 100        \* utilization at which a limit is breached
RESUME_MARGIN == 1              \* the 1000 ms added to the resume delay
WINDOW_DURATION_MS == 5         \* five hours

Null == -1                      \* null / undefined for instants and handles
Stale == -2                     \* a handle whose timeout has already run
NaN == -99                      \* getTime() of an unparsable timestamp

Max(a, b) == IF a >= b THEN a ELSE b

\* ------------------------------------------------------------ remote data
Time == 0..MaxTime
ResetInstants == 0..(MaxTime - RESUME_MARGIN - 1)
Utilizations == {0, LIMIT_UTILIZATION - 1, LIMIT_UTILIZATION, LIMIT_UTILIZATION + 1}

UsageLimit == [utilization : Utilizations, resetsAt : ResetInstants \cup {Null}]
AbsentLimit == [utilization |-> Null, resetsAt |-> Null]

\* UsageData: weeklySonnet may be null (AbsentLimit)
UsageData ==
    [session : UsageLimit, weeklyAll : UsageLimit,
     weeklySonnet : UsageLimit \cup {AbsentLimit}]

\* the snapshots the polls of the scheduler resolve with: a limit below 100
\* carries no reset instant or the latest one
PolledLimit ==
    {l \in UsageLimit :
        /\ l.utilization \in {LIMIT_UTILIZATION - 1, LIMIT_UTILIZATION}
        /\ l.utilization < LIMIT_UTILIZATION =>
                l.resetsAt \in {Null, MaxTime - RESUME_MARGIN - 1}}
PolledData ==
    [session : PolledLimit, weeklyAll : PolledLimit,
     weeklySonnet : PolledLimit \cup {AbsentLimit}]

\* the null argument of getLimitReset(data: UsageData | null)
NullData ==
    [session |-> AbsentLimit, weeklyAll |-> AbsentLimit, weeklySonnet |-> AbsentLimit]

LimitKind == {"session", "weeklyAll", "weeklySonnet"}
NoLimit == [kind |-> "none", resetAt |-> Null]

\* variants of getLimitReset with one slip each
getLimitReset_above(data) ==
    IF data = NullData THEN NoLimit
    ELSE IF data.session.utilization > LIMIT_UTILIZATION /\ data.session.resetsAt # Null
        THEN [kind |-> "session", resetAt |-> data.session.resetsAt]
    ELSE IF data.weeklyAll.utilization > LIMIT_UTILIZATION /\ data.weeklyAll.resetsAt # Null
        THEN [kind |-> "weeklyAll", resetAt |-> data.weeklyAll.resetsAt]
    ELSE IF /\ data.weeklySonnet # AbsentLimit
            /\ data.weeklySonnet.utilization > LIMIT_UTILIZATION
            /\ data.weeklySonnet.resetsAt # Null
        THEN [kind |-> "weeklySonnet", resetAt |-> data.weeklySonnet.resetsAt]
    ELSE NoLimit

getLimitReset_sessionBlocks(data) ==
    IF data = NullData THEN NoLimit
    ELSE IF data.session.utilization >= LIMIT_UTILIZATION
        THEN IF data.session.resetsAt # Null
             THEN [kind |-> "session", resetAt |-> data.session.resetsAt]
             ELSE NoLimit
    ELSE IF data.weeklyAll.utilization >= LIMIT_UTILIZATION /\ data.weeklyAll.resetsAt # Null
        THEN [kind |-> "weeklyAll", resetAt |-> data.weeklyAll.resetsAt]
    ELSE IF /\ data.weeklySonnet # AbsentLimit
            /\ data.weeklySonnet.utilization >= LIMIT_UTILIZATION
            /\ data.weeklySonnet.resetsAt # Null
        THEN [kind |-> "weeklySonnet", resetAt |-> data.weeklySonnet.resetsAt]
    ELSE NoLimit

getLimitReset_noResetCheck(data) ==
    IF data = NullData THEN NoLimit
    ELSE IF data.session.utilization >= LIMIT_UTILIZATION
        THEN [kind |-> "session", resetAt |-> data.session.resetsAt]
    ELSE IF data.weeklyAll.utilization >= LIMIT_UTILIZATION
        THEN [kind |-> "weeklyAll", resetAt |-> data.weeklyAll.resetsAt]
    ELSE IF /\ data.weeklySonnet # AbsentLimit
            /\ data.weeklySonnet.utilization >= LIMIT_UTILIZATION
        THEN [kind |-> "weeklySonnet", resetAt |-> data.weeklySonnet.resetsAt]
    ELSE NoLimit

getLimitReset(data) ==
    IF data = NullData THEN NoLimit
    ELSE IF data.session.utilization >= LIMIT_UTILIZATION /\ data.session.resetsAt # Null
        THEN [kind |-> "session", resetAt |-> data.session.resetsAt]
    ELSE IF data.weeklyAll.utilization >= LIMIT_UTILIZATION /\ data.weeklyAll.resetsAt # Null
        THEN [kind |-> "weeklyAll", resetAt |-> data.weeklyAll.resetsAt]
    ELSE IF /\ data.weeklySonnet # AbsentLimit
            /\ data.weeklySonnet.utilization >= LIMIT_UTILIZATION
            /\ data.weeklySonnet.resetsAt # Null
        THEN [kind |-> "weeklySonnet", resetAt |-> data.weeklySonnet.resetsAt]
    ELSE NoLimit

shouldRemainPaused(limit, t) == limit # NoLimit /\ limit.resetAt > t

computeResumeDelay(limit, nowMs) == Max(0, limit.resetAt - nowMs)

\* the local UsageSummary of usageTracker.calculateUsage, or null when it threw
Percentages == {50, 100}
LocalSummary == [windowPercentage : Percentages, weeklyPercentage : Percentages]
NullLocal == [windowPercentage |-> Null, weeklyPercentage |-> Null]
PolledLocal ==
    {NullLocal} \cup {l \in LocalSummary : l.windowPercentage = l.weeklyPercentage}

\* ------------------------------------------------------------------- state
VARIABLES
    phase,                \* "inactive" | "active" | "deactivated"
    now,                  \* wall clock, seconds
    limitReset,           \* the held LimitReset, or NoLimit
    refreshInterval,      \* TRUE iff the module holds a refresh-interval handle
    refreshTimers,        \* live refresh intervals in the runtime
    limitResumeTimeout,   \* Null, Stale, or the due time of the handle's timeout
    resumeTimers,         \* bag of the due times of the live resume timeouts
    countdownInterval,    \* TRUE iff the module holds a countdown handle
    countdownTimers,      \* live countdown intervals in the runtime
    authPromptedThisSession,
    prompts,              \* authentication prompts shown since the last successful poll
    display,              \* what the status bar shows
    fetching,             \* updateStatusBar coroutines awaiting fetchUsage()
    computing,            \* ... awaiting usageTracker.calculateUsage()
    predictions,          \* sync cycles in flight that may deliver a prediction
    last,                 \* the handler that ran last, its inputs, its fetchUsage calls
    \* SpecLimit
    ldata, lresult,
    \* SpecWindow
    entries, wnow, windowStart,
    \* SpecPredict
    pin, prediction,
    \* SpecRate
    rin, usageRate,
    \* SpecUsage
    uin, summary,
    \* SpecReader
    logRoot,              \* the directory tree: does the root exist, its files
    reader,               \* getAllUsageEntries: position, per-file read state
    merged,               \* the entries getAllUsageEntries returned
    rsummary,             \* the summary calculateUsage built from them
    \* SpecWeek
    wkNow, boundaries,
    \* SpecCache
    fetchScript, cache, cacheFresh, temp, proc,
    \* SpecSound
    sclock, sconfig, player, shist, slast,
    \* SpecSync
    sessionLog, lastSyncedSessionTimestamp, pendingSessions, reads, syncs, sent, synclast

schedVars ==
    <<phase, now, limitReset, refreshInterval, refreshTimers, limitResumeTimeout,
      resumeTimers, countdownInterval, countdownTimers, authPromptedThisSession, prompts,
      display, fetching, computing, predictions, last>>
limitVars == <<ldata, lresult>>
windowVars == <<entries, wnow, windowStart>>
predictVars == <<pin, prediction>>
rateVars == <<rin, usageRate>>
usageVars == <<uin, summary>>
readerVars == <<logRoot, reader, merged, rsummary>>
weekVars == <<wkNow, boundaries>>
cacheVars == <<fetchScript, cache, cacheFresh, temp, proc>>
soundVars == <<sclock, sconfig, player, shist, slast>>
syncVars == <<sessionLog, lastSyncedSessionTimestamp, pendingSessions, reads, syncs, sent, synclast>>
pureVars == <<limitVars, windowVars, predictVars, rateVars, usageVars, readerVars,
    weekVars,
    cacheVars,
    soundVars,
    syncVars>>
vars == <<schedVars, limitVars, windowVars, predictVars, rateVars, usageVars, readerVars,
    weekVars,
    cacheVars,
    soundVars,
    syncVars>>

\* the module-level state of extension.ts that the handlers read and write
Cur ==
    [limitReset |-> limitReset,
     refreshInterval |-> refreshInterval, refreshTimers |-> refreshTimers,
     limitResumeTimeout |-> limitResumeTimeout, resumeTimers |-> resumeTimers,
     countdownInterval |-> countdownInterval, countdownTimers |-> countdownTimers,
     authPromptedThisSession |-> authPromptedThisSession, prompts |-> prompts,
     display |-> display, fetching |-> fetching, issued |-> 0]

Commit(s) ==
    /\ limitReset' = s.limitReset
    /\ refreshInterval' = s.refreshInterval
    /\ refreshTimers' = s.refreshTimers
    /\ limitResumeTimeout' = s.limitResumeTimeout
    /\ resumeTimers' = s.resumeTimers
    /\ countdownInterval' = s.countdownInterval
    /\ countdownTimers' = s.countdownTimers
    /\ authPromptedThisSession' = s.authPromptedThisSession
    /\ prompts' = s.prompts
    /\ display' = s.display
    /\ fetching' = s.fetching

\* what the last handler was, how many fetchUsage() calls it made, and, for a
\* poll that reached the limit check, what it saw: the LimitReset found,
\* whether a tracked limit was at or above 100 (hot), whether one of those
\* carried a reset instant (breached), and the local summary
Hot(data) ==
    {k \in LimitKind : data[k] # AbsentLimit /\ data[k].utilization >= LIMIT_UTILIZATION}
Breached(data) == {k \in Hot(data) : data[k].resetsAt # Null}
NoSeen == [found |-> NoLimit, hot |-> FALSE, breached |-> FALSE, local |-> NullLocal]
Seen(data, local) ==
    [found |-> getLimitReset(data), hot |-> Hot(data) # {},
     breached |-> Breached(data) # {}, local |-> local]

\* the limit check reads a snapshot only through getLimitReset: one snapshot
\* of PolledData stands for all those the check cannot tell apart
PollOutcomes == {Seen(d, NullLocal) : d \in PolledData}
PollSnapshots ==
    {CHOOSE d \in PolledData : Seen(d, NullLocal) = o : o \in PollOutcomes}

Ran(op, s, seen) == [op |-> op, issued |-> s.issued, seen |-> seen]

\* ------------------------------------------------------------- status bar
View(v, limit) == [view |-> v, limit |-> limit]
showLoading(s) == [s EXCEPT !.display = View("loading", NoLimit)]
showLimitReached_keepsText(s, limit) == s
showLimitReached(s, limit) == [s EXCEPT !.display = View("limitReached", limit)]
showNotAuthenticated(s) == [s EXCEPT !.display = View("notAuthenticated", NoLimit)]
showError(s) == [s EXCEPT !.display = View("error", NoLimit)]
update(s) == [s EXCEPT !.display = View("usage", NoLimit)]

\* ------------------------------------------------------------------ timers
stopRefreshInterval(s) ==
    IF s.refreshInterval
    THEN [s EXCEPT !.refreshTimers = Max(0, @ - 1), !.refreshInterval = FALSE]
    ELSE s

setupRefreshInterval(s, t) ==
    LET s1 == stopRefreshInterval(s) IN
    IF shouldRemainPaused(s1.limitReset, t) THEN s1
    ELSE [s1 EXCEPT !.refreshTimers = @ + 1, !.refreshInterval = TRUE]

stopCountdownInterval(s) ==
    IF s.countdownInterval
    THEN [s EXCEPT !.countdownTimers = Max(0, @ - 1), !.countdownInterval = FALSE]
    ELSE s

\* startCountdownInterval without the stopCountdownInterval() of its first line
startCountdownInterval_noStop(s) ==
    [s EXCEPT !.countdownTimers = @ + 1, !.countdownInterval = TRUE]

startCountdownInterval(s) ==
    LET s1 == stopCountdownInterval(s) IN
    [s1 EXCEPT !.countdownTimers = @ + 1, !.countdownInterval = TRUE]

clearLimitResumeTimeout(s) ==
    IF s.limitResumeTimeout # Null
    THEN [s EXCEPT
            !.resumeTimers =
                IF s.limitResumeTimeout # Stale /\ BagIn(s.limitResumeTimeout, @)
                THEN @ (-) SetToBag({s.limitResumeTimeout}) ELSE @,
            !.limitResumeTimeout = Null]
    ELSE s

clearLimitPause(s) ==
    stopCountdownInterval(clearLimitResumeTimeout([s EXCEPT !.limitReset = NoLimit]))

\* updateStatusBar without the pause check of its first lines
updateStatusBar_ignoresPause(s, t) ==
    LET s1 == IF s.limitReset # NoLimit /\ ~shouldRemainPaused(s.limitReset, t)
              THEN setupRefreshInterval(clearLimitPause(s), t)
              ELSE s
    IN  [showLoading(s1) EXCEPT !.fetching = @ + 1, !.issued = @ + 1]

\* ---------------------------------------------------------- updateStatusBar
\* updateStatusBar() up to its first suspension: either it returns after
\* re-displaying the held limit, or it calls fetchUsage() and awaits it
updateStatusBar(s, t) ==
    IF s.limitReset # NoLimit /\ shouldRemainPaused(s.limitReset, t)
    THEN showLimitReached(s, s.limitReset)
    ELSE LET s1 == IF s.limitReset # NoLimit
                   THEN setupRefreshInterval(clearLimitPause(s), t)
                   ELSE s
         IN  [showLoading(s1) EXCEPT !.fetching = @ + 1, !.issued = @ + 1]

\* whether updateStatusBar() would call fetchUsage() in state s at time t
WouldFetch(s, t) == ~shouldRemainPaused(s.limitReset, t)

\* the resume callback without its closing updateStatusBar()
ResumeCallback_noPoll(s, t) == setupRefreshInterval(clearLimitPause(s), t)

ResumeCallback(s, t) ==
    updateStatusBar(setupRefreshInterval(clearLimitPause(s), t), t)

\* scheduleLimitResume without the setTimeout of its last lines
scheduleLimitResume_noTimeout(s, limit, t) ==
    LET s1 == startCountdownInterval(clearLimitResumeTimeout(s))
        delay == computeResumeDelay(limit, t)
    IN  IF delay <= 0 THEN ResumeCallback(s1, t) ELSE s1

scheduleLimitResume(s, limit, t) ==
    LET s1 == startCountdownInterval(clearLimitResumeTimeout(s))
        delay == computeResumeDelay(limit, t)
    IN  IF delay <= 0
        THEN ResumeCallback(s1, t)
        ELSE [s1 EXCEPT !.limitResumeTimeout = t + delay + RESUME_MARGIN,
                        !.resumeTimers = @ (+) SetToBag({t + delay + RESUME_MARGIN})]

\* showInformationMessage is reached only while the flag is down
promptForAuthentication(s) ==
    IF s.authPromptedThisSession THEN s
    ELSE [s EXCEPT !.authPromptedThisSession = TRUE, !.prompts = @ + 1]

\* updateStatusBar() from the resolution of fetchUsage() to the next await
AfterFetch(s, status) ==
    CASE status = "no_token" -> promptForAuthentication(showNotAuthenticated(s))
      [] status = "error" -> showError(s)
      [] OTHER -> [s EXCEPT !.authPromptedThisSession = FALSE, !.prompts = 0]

\* the limit check also pausing on a local summary at 100 percent
AfterLocal_localLimit(s, data, local, t) ==
    LET remote == getLimitReset(data)
        resetTime ==
            IF remote # NoLimit THEN remote
            ELSE IF local # NullLocal /\ local.windowPercentage >= LIMIT_UTILIZATION
                 THEN [kind |-> "session", resetAt |-> t + 1]
                 ELSE NoLimit
    IN  IF resetTime # NoLimit
        THEN scheduleLimitResume(
                stopRefreshInterval(
                    showLimitReached([s EXCEPT !.limitReset = resetTime], resetTime)),
                resetTime, t)
        ELSE update(s)

\* updateStatusBar() after calculateUsage() settled: the limit check
AfterLocal(s, data, local, t) ==
    LET resetTime == getLimitReset(data) IN
    IF resetTime # NoLimit
    THEN scheduleLimitResume(
            stopRefreshInterval(
                showLimitReached([s EXCEPT !.limitReset = resetTime], resetTime)),
            resetTime, t)
    ELSE update(s)

\* ----------------------------------------------------------------- actions
InFlight == fetching + computing

SchedInit ==
    /\ phase = "inactive"
    /\ now = 0
    /\ limitReset = NoLimit
    /\ refreshInterval = FALSE
    /\ refreshTimers = 0
    /\ limitResumeTimeout = Null
    /\ resumeTimers = EmptyBag
    /\ countdownInterval = FALSE
    /\ countdownTimers = 0
    /\ authPromptedThisSession = FALSE
    /\ prompts = 0
    /\ display = View("none", NoLimit)
    /\ fetching = 0
    /\ computing = 0
    /\ predictions = 0
    /\ last = [op |-> "init", issued |-> 0, seen |-> NoSeen]

Pending == [kind |-> "pending", resetAt |-> Null]
LimitIdle == ldata = NullData /\ lresult = Pending
NoStart == [start |-> NaN]
WindowIdle == entries = <<>> /\ wnow = 0 /\ windowStart = NoStart
NoPrediction == [canPredict |-> "pending"]
NoArgs == [plan |-> "none"]
PredictIdle == pin = NoArgs /\ prediction = NoPrediction
NoRate == [tokensPerHour |-> Null, sampleWindowMs |-> Null, sampleTokens |-> Null]
NoLog == [entries |-> <<>>, now |-> 0]
RateIdle == rin = NoLog /\ usageRate = NoRate
NoSummary == [plan |-> "none"]
UsageIdle == uin = NoLog /\ summary = NoSummary
NoReader == [pc |-> "idle"]
Absent == [body |-> "absent"]
NoPlayer == [op |-> "unused"]
DefaultSoundConfig ==
    [enabled |-> TRUE, promptCompletion |-> TRUE, rateLimitWarning |-> TRUE,
     rateLimitHit |-> TRUE, warningThreshold |-> 80, soundFile |-> "found"]
NoWeek == [weekStart |-> Null, weekEnd |-> Null]
NoSync == [op |-> "none", payload |-> <<>>]
ReaderIdle ==
    /\ logRoot = [exists |-> FALSE, files |-> <<>>]
    /\ reader = NoReader
    /\ merged = <<>>
    /\ rsummary = NoSummary
WeekIdle ==
    wkNow = 0 /\ boundaries = NoWeek
CacheIdle ==
    /\ fetchScript = FALSE /\ cache = Absent /\ cacheFresh = FALSE
    /\ temp = <<>> /\ proc = <<>>
SoundIdle ==
    /\ sclock = 0 /\ sconfig = DefaultSoundConfig /\ player = NoPlayer
    /\ shist = NoPlayer /\ slast = NoPlayer
SyncIdle ==
    /\ sessionLog = <<>> /\ lastSyncedSessionTimestamp = Null /\ pendingSessions = <<>>
    /\ reads = {} /\ syncs = <<>> /\ sent = {} /\ synclast = NoSync

\* a handler that ends in updateStatusBar() needs room for one more poll
Room(s) == WouldFetch(s, now) => InFlight < MaxInFlight

Activate ==
    /\ phase = "inactive"
    /\ phase' = "active"
    /\ LET s == updateStatusBar(setupRefreshInterval(Cur, now), now) IN
        /\ Commit(s)
        /\ last' = Ran("activate", s, NoSeen)
    /\ UNCHANGED <<now, computing, predictions, pureVars>>

Deactivate ==
    /\ phase = "active"
    /\ phase' = "deactivated"
    /\ LET s == [stopCountdownInterval(stopRefreshInterval(clearLimitPause(Cur)))
                    EXCEPT !.authPromptedThisSession = FALSE] IN
        /\ Commit(s)
        /\ last' = Ran("deactivate", s, NoSeen)
    /\ UNCHANGED <<now, computing, predictions, pureVars>>

ManualRefresh ==
    /\ phase = "active"
    /\ Room(Cur)
    /\ LET s == updateStatusBar(Cur, now) IN
        /\ Commit(s)
        /\ last' = Ran("manualRefresh", s, NoSeen)
    /\ UNCHANGED <<phase, now, computing, predictions, pureVars>>

ConfigChange ==
    /\ phase = "active"
    /\ Room(Cur)
    /\ LET s == updateStatusBar(setupRefreshInterval(Cur, now), now) IN
        /\ Commit(s)
        /\ last' = Ran("configChange", s, NoSeen)
    /\ UNCHANGED <<phase, now, computing, predictions, pureVars>>

RefreshTick ==
    /\ refreshTimers > 0
    /\ Room(Cur)
    /\ LET s == updateStatusBar(Cur, now) IN
        /\ Commit(s)
        /\ last' = Ran("refreshTick", s, NoSeen)
    /\ UNCHANGED <<phase, now, computing, predictions, pureVars>>

CountdownTick ==
    /\ countdownTimers > 0
    /\ LET s == IF limitReset # NoLimit THEN showLimitReached(Cur, limitReset) ELSE Cur IN
        /\ Commit(s)
        /\ last' = Ran("countdownTick", s, NoSeen)
    /\ UNCHANGED <<phase, now, computing, predictions, pureVars>>

\* a live resume timeout whose due time has come runs its callback
ResumeTimerFires ==
    \E due \in BagToSet(resumeTimers) :
        /\ due <= now
        /\ LET fired == [Cur EXCEPT
                            !.resumeTimers = @ (-) SetToBag({due}),
                            !.limitResumeTimeout =
                                IF @ = due /\ CopiesIn(due, resumeTimers) = 1
                                THEN Stale ELSE @]
               s == ResumeCallback(fired, now)
           IN  /\ fired.fetching + computing < MaxInFlight
               /\ Commit(s)
               /\ last' = Ran("resumeTimer", s, NoSeen)
        /\ UNCHANGED <<phase, now, computing, predictions, pureVars>>

\* the sync manager starts a sync cycle (its interval is armed while active)
SyncStarts ==
    /\ phase = "active"
    /\ predictions = 0
    /\ predictions' = 1
    /\ last' = [op |-> "syncStarts", issued |-> 0, seen |-> NoSeen]
    /\ UNCHANGED <<phase, now, limitReset, refreshInterval, refreshTimers,
                   limitResumeTimeout, resumeTimers, countdownInterval, countdownTimers,
                   authPromptedThisSession, prompts, display, fetching, computing, pureVars>>

\* the sync cycle delivers a prediction: the onPredictionUpdate callback
PredictionUpdate ==
    /\ predictions > 0
    /\ predictions' = predictions - 1
    /\ Room(Cur)
    /\ LET s == updateStatusBar(Cur, now) IN
        /\ Commit(s)
        /\ last' = Ran("predictionUpdate", s, NoSeen)
    /\ UNCHANGED <<phase, now, computing, pureVars>>

\* fetchUsage() resolves
FetchResolves ==
    /\ fetching > 0
    /\ \E status \in {"success", "no_token", "error"} :
        LET s == AfterFetch([Cur EXCEPT !.fetching = @ - 1], status) IN
        /\ Commit(s)
        /\ computing' = IF status = "success" THEN computing + 1 ELSE computing
        /\ last' = Ran(status, s, NoSeen)
    /\ UNCHANGED <<phase, now, predictions, pureVars>>

\* calculateUsage() settles and the poll inspects the snapshot it fetched
LocalResolves ==
    /\ computing > 0
    /\ computing' = computing - 1
    /\ \E data \in PollSnapshots, local \in PolledLocal :
        LET s == AfterLocal(Cur, data, local, now) IN
        /\ Commit(s)
        /\ last' = Ran("poll", s, Seen(data, local))
    /\ UNCHANGED <<phase, now, predictions, pureVars>>

Tick ==
    /\ now < MaxTime
    /\ now' = now + 1
    /\ last' = [op |-> "tick", issued |-> 0, seen |-> NoSeen]
    /\ UNCHANGED <<phase, limitReset, refreshInterval, refreshTimers,
                   limitResumeTimeout, resumeTimers, countdownInterval, countdownTimers,
                   authPromptedThisSession, prompts, display, fetching, computing, predictions,
                   pureVars>>

Next ==
    \/ Activate
    \/ Deactivate
    \/ ManualRefresh
    \/ ConfigChange
    \/ RefreshTick
    \/ CountdownTick
    \/ ResumeTimerFires
    \/ SyncStarts
    \/ PredictionUpdate
    \/ FetchResolves
    \/ LocalResolves
    \/ Tick

Init == SchedInit /\ LimitIdle /\ WindowIdle /\ PredictIdle /\ RateIdle /\ UsageIdle /\ ReaderIdle /\ WeekIdle /\ CacheIdle /\ SoundIdle /\ SyncIdle
Spec == Init /\ [][Next]_vars

\* ------------------------------------------------- SpecLimit: getLimitReset
LimitInit ==
    /\ ldata \in UsageData \cup {NullData}
    /\ lresult = Pending

CallGetLimitReset ==
    /\ lresult = Pending
    /\ lresult' = getLimitReset(ldata)
    /\ UNCHANGED <<ldata, schedVars, windowVars, predictVars, rateVars, usageVars, readerVars, weekVars, cacheVars, soundVars, syncVars>>

LimitNext == CallGetLimitReset
InitLimit == SchedInit /\ LimitInit /\ WindowIdle /\ PredictIdle /\ RateIdle /\ UsageIdle /\ ReaderIdle /\ WeekIdle /\ CacheIdle /\ SoundIdle /\ SyncIdle
SpecLimit == InitLimit /\ [][LimitNext]_vars

\* ----------------------------------------------- SpecWindow: getWindowStart
Infinity == 1000000
Timestamps == (0..MaxTs) \cup {NaN}
Entry == [tsMs : Timestamps]
EntryLists == UNION {[1..n -> Entry] : n \in 0..MaxEntries}

\* IEEE comparisons: any comparison with NaN is false
Ge(a, b) == a # NaN /\ b # NaN /\ a >= b
Lt(a, b) == a # NaN /\ b # NaN /\ a < b

\* the single pass of getWindowStart over entries[i..]
RECURSIVE MinTsScan(_, _, _, _)
MinTsScan(es, i, windowAgoMs, minTs) ==
    IF i > Len(es) THEN minTs
    ELSE MinTsScan(es, i + 1, windowAgoMs,
            IF Ge(es[i].tsMs, windowAgoMs) /\ Lt(es[i].tsMs, minTs)
            THEN es[i].tsMs ELSE minTs)

getWindowStart(es, t) ==
    LET windowAgoMs == t - WINDOW_DURATION_MS
        minTs == MinTsScan(es, 1, windowAgoMs, Infinity)
    IN  IF minTs # Infinity THEN minTs ELSE windowAgoMs

WindowInit ==
    /\ entries \in EntryLists
    /\ wnow \in 0..MaxTs
    /\ windowStart = NoStart

CallGetWindowStart ==
    /\ windowStart = NoStart
    /\ windowStart' = [start |-> getWindowStart(entries, wnow)]
    /\ UNCHANGED <<entries, wnow, schedVars, limitVars, predictVars, rateVars, usageVars, readerVars, weekVars, cacheVars, soundVars, syncVars>>

WindowNext == CallGetWindowStart
InitWindow == SchedInit /\ LimitIdle /\ WindowInit /\ PredictIdle /\ RateIdle /\ UsageIdle /\ ReaderIdle /\ WeekIdle /\ CacheIdle /\ SoundIdle /\ SyncIdle
SpecWindow == InitWindow /\ [][WindowNext]_vars

\* ---------------------------------------- SpecPredict: calculatePredictions
\* token counts are in units of 1000 tokens, durations and instants in minutes
HOUR_MS == 60                       \* the 3600000 ms of one hour
TOKENS_PER_HOUR_ESTIMATE == 50      \* 50000 tokens
PlanType == {"pro", "max5", "max20"}
PLAN_LIMITS ==
    [pro   |-> [windowTokens |-> 500,   weeklyHours |-> 60],
     max5  |-> [windowTokens |-> 2500,  weeklyHours |-> 210],
     max20 |-> [windowTokens |-> 10000, weeklyHours |-> 360]]

\* a / b * c for the arguments the model draws, where the quotient is exact
MulDiv(a, b, c) == (a * c) \div b

PredictRates == {-50, 0, 50, 100}           \* rate.tokensPerHour
PredictPercents == {0, 20, 50, 99, 100, 120}
PredictTimes == {0, 720}
PredictArgs ==
    [rate : [tokensPerHour : PredictRates],
     currentSessionPercent : PredictPercents,
     currentWeeklyPercent : PredictPercents,
     plan : PlanType,
     now : PredictTimes]

\* reason is "undefined" when the returned object has no reason key
CannotPredict(reason) ==
    [sessionLimitAt |-> Null, weeklyLimitAt |-> Null,
     timeToSessionLimit |-> Null, timeToWeeklyLimit |-> Null,
     canPredict |-> FALSE, reason |-> reason]

\* the projection of calculatePredictions once both early returns are passed
Projection(rate, currentSessionPercent, currentWeeklyPercent, windowTokens, weeklyTokenLimit, t) ==
    LET sessionRemainingTokens == MulDiv(100 - currentSessionPercent, 100, windowTokens)
        weeklyRemainingTokens == MulDiv(100 - currentWeeklyPercent, 100, weeklyTokenLimit)
        timeToSessionLimit == MulDiv(sessionRemainingTokens, rate.tokensPerHour, HOUR_MS)
        timeToWeeklyLimit == MulDiv(weeklyRemainingTokens, rate.tokensPerHour, HOUR_MS)
    IN  [sessionLimitAt |-> t + timeToSessionLimit,
         weeklyLimitAt |-> t + timeToWeeklyLimit,
         timeToSessionLimit |-> timeToSessionLimit,
         timeToWeeklyLimit |-> timeToWeeklyLimit,
         canPredict |-> TRUE, reason |-> "undefined"]

\* variant: the at-limit test comes before the rate test
calculatePredictions_limitFirst(rate, currentSessionPercent, currentWeeklyPercent, plan, t) ==
    IF currentSessionPercent >= 100 \/ currentWeeklyPercent >= 100
    THEN CannotPredict("already_at_limit")
    ELSE IF rate.tokensPerHour <= 0
    THEN CannotPredict("no_recent_usage")
    ELSE Projection(rate, currentSessionPercent, currentWeeklyPercent,
                    PLAN_LIMITS[plan].windowTokens,
                    PLAN_LIMITS[plan].weeklyHours * TOKENS_PER_HOUR_ESTIMATE, t)

\* variant: the at-limit test looks at the session percentage only
calculatePredictions_sessionOnly(rate, currentSessionPercent, currentWeeklyPercent, plan, t) ==
    IF rate.tokensPerHour <= 0
    THEN CannotPredict("no_recent_usage")
    ELSE IF currentSessionPercent >= 100
    THEN CannotPredict("already_at_limit")
    ELSE Projection(rate, currentSessionPercent, currentWeeklyPercent,
                    PLAN_LIMITS[plan].windowTokens,
                    PLAN_LIMITS[plan].weeklyHours * TOKENS_PER_HOUR_ESTIMATE, t)

\* variant: the at-limit result still carries the projected session instant
calculatePredictions_halfNull(rate, currentSessionPercent, currentWeeklyPercent, plan, t) ==
    IF rate.tokensPerHour <= 0
    THEN CannotPredict("no_recent_usage")
    ELSE IF currentSessionPercent >= 100 \/ currentWeeklyPercent >= 100
    THEN [CannotPredict("already_at_limit") EXCEPT !.sessionLimitAt = t]
    ELSE Projection(rate, currentSessionPercent, currentWeeklyPercent,
                    PLAN_LIMITS[plan].windowTokens,
                    PLAN_LIMITS[plan].weeklyHours * TOKENS_PER_HOUR_ESTIMATE, t)

\* variant: the weekly projection uses the rolling-window ceiling
calculatePredictions_oneCeiling(rate, currentSessionPercent, currentWeeklyPercent, plan, t) ==
    IF rate.tokensPerHour <= 0
    THEN CannotPredict("no_recent_usage")
    ELSE IF currentSessionPercent >= 100 \/ currentWeeklyPercent >= 100
    THEN CannotPredict("already_at_limit")
    ELSE Projection(rate, currentSessionPercent, currentWeeklyPercent,
                    PLAN_LIMITS[plan].windowTokens,
                    PLAN_LIMITS[plan].windowTokens, t)

calculatePredictions(rate, currentSessionPercent, currentWeeklyPercent, plan, t) ==
    IF rate.tokensPerHour <= 0
    THEN CannotPredict("no_recent_usage")
    ELSE IF currentSessionPercent >= 100 \/ currentWeeklyPercent >= 100
    THEN CannotPredict("already_at_limit")
    ELSE
        LET limits == PLAN_LIMITS[plan]
            weeklyTokenLimit == limits.weeklyHours * TOKENS_PER_HOUR_ESTIMATE
        IN  Projection(rate, currentSessionPercent, currentWeeklyPercent,
                       limits.windowTokens, weeklyTokenLimit, t)

PredictInit ==
    /\ pin \in PredictArgs
    /\ prediction = NoPrediction

CallCalculatePredictions ==
    /\ prediction = NoPrediction
    /\ prediction' = calculatePredictions(pin.rate, pin.currentSessionPercent,
                                          pin.currentWeeklyPercent, pin.plan, pin.now)
    /\ UNCHANGED <<pin, schedVars, limitVars, windowVars, rateVars, usageVars, readerVars, weekVars, cacheVars, soundVars, syncVars>>

PredictNext == CallCalculatePredictions
InitPredict == SchedInit /\ LimitIdle /\ WindowIdle /\ PredictInit /\ RateIdle /\ UsageIdle /\ ReaderIdle /\ WeekIdle /\ CacheIdle /\ SoundIdle /\ SyncIdle
SpecPredict == InitPredict /\ [][PredictNext]_vars

\* ------------------------------------------- SpecRate: calculateUsageRate
DEFAULT_RATE_WINDOW_MS == 60        \* one hour
RateNow == 100
\* before, at the edge of and inside the one-hour and half-hour sample
\* windows, at the reference time, after it, and unparsable
RateStamps == {RateNow - 61, RateNow - 60, RateNow - 30, RateNow, RateNow + 1, NaN}
TokenCounts == {0, 25}
RateEntry == [tsMs : RateStamps, input_tokens : TokenCounts, output_tokens : TokenCounts]
RateLogs == UNION {[1..n -> RateEntry] : n \in 0..MaxEntries}
SampleWindows == {DEFAULT_RATE_WINDOW_MS, 30}

getEntryTokens(entry) == entry.input_tokens + entry.output_tokens

\* the loop of calculateUsageRate over es[i..]; acc is (sampleTokens, oldestEntryTime)
RECURSIVE RateScan(_, _, _, _, _)
RateScan(es, i, windowStartMs, nowMs, acc) ==
    IF i > Len(es) THEN acc
    ELSE LET timestamp == es[i].tsMs IN
         IF Lt(timestamp, windowStartMs) \/ Lt(nowMs, timestamp)
         THEN RateScan(es, i + 1, windowStartMs, nowMs, acc)
         ELSE RateScan(es, i + 1, windowStartMs, nowMs,
                 [sampleTokens |-> acc.sampleTokens + getEntryTokens(es[i]),
                  oldestEntryTime |->
                      IF Lt(timestamp, acc.oldestEntryTime) THEN timestamp
                      ELSE acc.oldestEntryTime])

\* variant: the rate is taken over the nominal sample window
calculateUsageRate_nominal(es, nowMs, sampleWindowMs) ==
    LET acc == RateScan(es, 1, nowMs - sampleWindowMs, nowMs,
                        [sampleTokens |-> 0, oldestEntryTime |-> nowMs])
    IN  IF acc.sampleTokens = 0
        THEN [tokensPerHour |-> 0, sampleWindowMs |-> sampleWindowMs, sampleTokens |-> 0]
        ELSE [tokensPerHour |-> MulDiv(acc.sampleTokens, sampleWindowMs, HOUR_MS),
              sampleWindowMs |-> sampleWindowMs, sampleTokens |-> acc.sampleTokens]

\* variant: an elapsed time of zero is replaced by one minute
calculateUsageRate_floorElapsed(es, nowMs, sampleWindowMs) ==
    LET acc == RateScan(es, 1, nowMs - sampleWindowMs, nowMs,
                        [sampleTokens |-> 0, oldestEntryTime |-> nowMs])
        elapsedMs == nowMs - acc.oldestEntryTime
    IN  IF acc.sampleTokens = 0
        THEN [tokensPerHour |-> 0, sampleWindowMs |-> sampleWindowMs, sampleTokens |-> 0]
        ELSE [tokensPerHour |-> MulDiv(acc.sampleTokens, Max(elapsedMs, 1), HOUR_MS),
              sampleWindowMs |-> sampleWindowMs, sampleTokens |-> acc.sampleTokens]

calculateUsageRate(es, nowMs, sampleWindowMs) ==
    LET windowStartMs == nowMs - sampleWindowMs
        acc == RateScan(es, 1, windowStartMs, nowMs,
                        [sampleTokens |-> 0, oldestEntryTime |-> nowMs])
        elapsedMs == nowMs - acc.oldestEntryTime
        tokensPerHour ==
            IF elapsedMs > 0 THEN MulDiv(acc.sampleTokens, elapsedMs, HOUR_MS) ELSE 0
    IN  IF acc.sampleTokens = 0
        THEN [tokensPerHour |-> 0, sampleWindowMs |-> sampleWindowMs, sampleTokens |-> 0]
        ELSE [tokensPerHour |-> tokensPerHour, sampleWindowMs |-> sampleWindowMs,
              sampleTokens |-> acc.sampleTokens]

RateInit ==
    /\ rin \in [entries : RateLogs, now : {RateNow}, sampleWindowMs : SampleWindows]
    /\ usageRate = NoRate

CallCalculateUsageRate ==
    /\ usageRate = NoRate
    /\ usageRate' = calculateUsageRate(rin.entries, rin.now, rin.sampleWindowMs)
    /\ UNCHANGED <<rin, schedVars, limitVars, windowVars, predictVars, usageVars, readerVars, weekVars, cacheVars, soundVars, syncVars>>

RateNext == CallCalculateUsageRate
InitRate == SchedInit /\ LimitIdle /\ WindowIdle /\ PredictIdle /\ RateInit /\ UsageIdle /\ ReaderIdle /\ WeekIdle /\ CacheIdle /\ SoundIdle /\ SyncIdle
SpecRate == InitRate /\ [][RateNext]_vars

\* ----------------------- SpecUsage: calculateUsage, calculateProjectBreakdown
DAY == 24
TOP_PROJECTS == 10                  \* projects.slice(0, 10)
UnknownPath == 0                    \* the project path 'Unknown'
MODEL_PRICING ==
    [opus    |-> [inputPerMTok |-> 15, outputPerMTok |-> 75],
     sonnet  |-> [inputPerMTok |-> 3,  outputPerMTok |-> 15],
     haiku   |-> [inputPerMTok |-> 1,  outputPerMTok |-> 5],
     unknown |-> [inputPerMTok |-> 3,  outputPerMTok |-> 15]]

Min(a, b) == IF a <= b THEN a ELSE b
Le(a, b) == Ge(b, a)

\* reference times two hours and eight hours into the week that starts at 168
UsageNows == {7 * DAY + 2, 7 * DAY + 8}
\* the week before, the start of the week, eight hours and thirteen hours
\* into it, and unparsable
UsageStamps == {7 * DAY - 2, 7 * DAY, 7 * DAY + 8, 7 * DAY + 13, NaN}
\* cwd is Null when the log line has none; project paths are 1, 2, ...
Cwds == {Null, 1, 2}
\* message.model and message.usage of a log line; model is "" when absent
UsageTokens ==
    {[model |-> "claude-opus-4",     input_tokens |-> 30,   output_tokens |-> 0],
     [model |-> "claude-3-5-sonnet", input_tokens |-> 0,    output_tokens |-> 600],
     [model |-> "claude-3-haiku",    input_tokens |-> 2400, output_tokens |-> 600],
     [model |-> "",                  input_tokens |-> 30,   output_tokens |-> 0]}
UsageEntry ==
    {[tsMs |-> ts, cwd |-> c, model |-> u.model,
      input_tokens |-> u.input_tokens, output_tokens |-> u.output_tokens] :
        ts \in UsageStamps, c \in Cwds, u \in UsageTokens}
UsageLogs == UNION {[1..n -> UsageEntry] : n \in 0..MaxEntries}

ModelFamily == {"opus", "sonnet", "haiku", "unknown"}
\* the family words the lower-cased model id includes
FamilyWords(model) ==
    CASE model = "claude-opus-4" -> {"opus"}
      [] model = "claude-3-5-sonnet" -> {"sonnet"}
      [] model = "claude-3-haiku" -> {"haiku"}
      [] OTHER -> {}

getModelFamily(model) ==
    IF model = "" THEN "unknown"
    ELSE IF "opus" \in FamilyWords(model) THEN "opus"
    ELSE IF "sonnet" \in FamilyWords(model) THEN "sonnet"
    ELSE IF "haiku" \in FamilyWords(model) THEN "haiku"
    ELSE "unknown"

\* in thousandths of a dollar: tokens / 1e6 * price per million tokens
calculateCost(inputTokens, outputTokens, inputPerMTok, outputPerMTok) ==
    inputTokens * inputPerMTok + outputTokens * outputPerMTok

\* variant: the hours of the day are not zeroed
getWeekBoundaries_keepsHours(t) ==
    LET dayOfWeek == (t \div DAY) % 7
        weekStart == t - dayOfWeek * DAY
    IN  [weekStart |-> weekStart, weekEnd |-> weekStart + 7 * DAY]

\* getUTCDay(), setUTCDate(date - dayOfWeek), setUTCHours(0, 0, 0, 0), and
\* weekEnd seven days later
getWeekBoundaries(t) ==
    LET dayOfWeek == (t \div DAY) % 7
        weekStart == t - dayOfWeek * DAY - (t % DAY)
    IN  [weekStart |-> weekStart, weekEnd |-> weekStart + 7 * DAY]

\* index of projectPath in the insertion-ordered projectMap, 0 when absent
MapIndex(projects, projectPath) ==
    IF \E k \in 1..Len(projects) : projects[k].projectPath = projectPath
    THEN CHOOSE k \in 1..Len(projects) : projects[k].projectPath = projectPath
    ELSE 0

EntryUsage(entry) ==
    LET pricing == MODEL_PRICING[getModelFamily(entry.model)] IN
    [projectPath |-> IF entry.cwd # Null THEN entry.cwd ELSE UnknownPath,
     totalTokens |-> entry.input_tokens + entry.output_tokens,
     inputTokens |-> entry.input_tokens,
     outputTokens |-> entry.output_tokens,
     requests |-> 1,
     cost |-> calculateCost(entry.input_tokens, entry.output_tokens,
                            pricing.inputPerMTok, pricing.outputPerMTok)]

\* the loop of calculateProjectBreakdown over es[i..], variant that appends
\* every entry without looking for an existing project
RECURSIVE ProjectScan_noMerge(_, _, _, _, _)
ProjectScan_noMerge(es, i, weekStartMs, nowMs, projects) ==
    IF i > Len(es) THEN projects
    ELSE IF Lt(es[i].tsMs, weekStartMs) \/ Lt(nowMs, es[i].tsMs)
    THEN ProjectScan_noMerge(es, i + 1, weekStartMs, nowMs, projects)
    ELSE ProjectScan_noMerge(es, i + 1, weekStartMs, nowMs,
                             Append(projects, EntryUsage(es[i])))

\* the loop of calculateProjectBreakdown over es[i..]
RECURSIVE ProjectScan(_, _, _, _, _)
ProjectScan(es, i, weekStartMs, nowMs, projects) ==
    IF i > Len(es) THEN projects
    ELSE IF Lt(es[i].tsMs, weekStartMs) \/ Lt(nowMs, es[i].tsMs)
    THEN ProjectScan(es, i + 1, weekStartMs, nowMs, projects)
    ELSE LET u == EntryUsage(es[i])
             k == MapIndex(projects, u.projectPath)
         IN  ProjectScan(es, i + 1, weekStartMs, nowMs,
                IF k # 0
                THEN [projects EXCEPT
                        ![k].totalTokens = @ + u.totalTokens,
                        ![k].inputTokens = @ + u.inputTokens,
                        ![k].outputTokens = @ + u.outputTokens,
                        ![k].requests = @ + 1,
                        ![k].cost = @ + u.cost]
                ELSE Append(projects, u))

RECURSIVE SumField(_, _)
SumField(ps, f) ==
    IF ps = <<>> THEN 0 ELSE ps[1][f] + SumField(Tail(ps), f)

\* projects.sort((a, b) => b.totalTokens - a.totalTokens): stable, descending
RECURSIVE InsertByTokens(_, _)
InsertByTokens(sorted, p) ==
    IF sorted = <<>> THEN <<p>>
    ELSE IF sorted[Len(sorted)].totalTokens >= p.totalTokens
    THEN Append(sorted, p)
    ELSE Append(InsertByTokens(SubSeq(sorted, 1, Len(sorted) - 1), p),
                sorted[Len(sorted)])

RECURSIVE SortByTokens(_)
SortByTokens(ps) ==
    IF ps = <<>> THEN <<>>
    ELSE InsertByTokens(SortByTokens(SubSeq(ps, 1, Len(ps) - 1)), ps[Len(ps)])

\* the breakdown given the projectMap values; percentage is kept as the
\* fraction num / den
Breakdown(projects) ==
    LET totalTokens == SumField(projects, "totalTokens")
        totalCost == SumField(projects, "cost")
        withPct ==
            [k \in 1..Len(projects) |->
                [projectPath |-> projects[k].projectPath,
                 totalTokens |-> projects[k].totalTokens,
                 inputTokens |-> projects[k].inputTokens,
                 outputTokens |-> projects[k].outputTokens,
                 requests |-> projects[k].requests,
                 cost |-> projects[k].cost,
                 percentage |->
                    IF totalTokens > 0
                    THEN [num |-> projects[k].totalTokens * 100, den |-> totalTokens]
                    ELSE [num |-> 0, den |-> 1]]]
        sorted == SortByTokens(withPct)
    IN  [projects |-> SubSeq(sorted, 1, Min(TOP_PROJECTS, Len(sorted))),
         totalTokens |-> totalTokens,
         totalCost |-> totalCost]

calculateProjectBreakdown_noMerge(es, weekStartMs, nowMs) ==
    Breakdown(ProjectScan_noMerge(es, 1, weekStartMs, nowMs, <<>>))

calculateProjectBreakdown(es, weekStartMs, nowMs) ==
    Breakdown(ProjectScan(es, 1, weekStartMs, nowMs, <<>>))

NoModelUsage == [inputTokens |-> 0, outputTokens |-> 0, requests |-> 0, cost |-> 0]

\* modelBreakdown[family] after one more entry of the week
AddRequest(modelBreakdown, entry) ==
    [modelBreakdown EXCEPT
        ![getModelFamily(entry.model)].inputTokens = @ + entry.input_tokens,
        ![getModelFamily(entry.model)].outputTokens = @ + entry.output_tokens,
        ![getModelFamily(entry.model)].requests = @ + 1]

\* the accumulation loop of calculateUsage over es[i..], variant in which an
\* entry of the rolling window is not looked at for the week
RECURSIVE UsageScan_exclusive(_, _, _, _, _, _)
UsageScan_exclusive(es, i, windowStartMs, weekStartMs, nowMs, acc) ==
    IF i > Len(es) THEN acc
    ELSE LET tsMs == es[i].tsMs
             tokens == getEntryTokens(es[i])
             inWindow == Ge(tsMs, windowStartMs) /\ Le(tsMs, nowMs)
             inWeek == ~inWindow /\ Ge(tsMs, weekStartMs) /\ Le(tsMs, nowMs)
         IN  UsageScan_exclusive(es, i + 1, windowStartMs, weekStartMs, nowMs,
                [windowTokens |-> acc.windowTokens + (IF inWindow THEN tokens ELSE 0),
                 weeklyTokens |-> acc.weeklyTokens + (IF inWeek THEN tokens ELSE 0),
                 modelBreakdown |->
                    IF inWeek THEN AddRequest(acc.modelBreakdown, es[i])
                    ELSE acc.modelBreakdown])

\* the accumulation loop of calculateUsage over es[i..], variant in which the
\* model breakdown is fed by the entries of the rolling window too
RECURSIVE UsageScan_windowBreakdown(_, _, _, _, _, _)
UsageScan_windowBreakdown(es, i, windowStartMs, weekStartMs, nowMs, acc) ==
    IF i > Len(es) THEN acc
    ELSE LET tsMs == es[i].tsMs
             tokens == getEntryTokens(es[i])
             inWindow == Ge(tsMs, windowStartMs) /\ Le(tsMs, nowMs)
             inWeek == Ge(tsMs, weekStartMs) /\ Le(tsMs, nowMs)
         IN  UsageScan_windowBreakdown(es, i + 1, windowStartMs, weekStartMs, nowMs,
                [windowTokens |-> acc.windowTokens + (IF inWindow THEN tokens ELSE 0),
                 weeklyTokens |-> acc.weeklyTokens + (IF inWeek THEN tokens ELSE 0),
                 modelBreakdown |->
                    IF inWindow \/ inWeek THEN AddRequest(acc.modelBreakdown, es[i])
                    ELSE acc.modelBreakdown])

\* the accumulation loop of calculateUsage over es[i..]
RECURSIVE UsageScan(_, _, _, _, _, _)
UsageScan(es, i, windowStartMs, weekStartMs, nowMs, acc) ==
    IF i > Len(es) THEN acc
    ELSE LET tsMs == es[i].tsMs
             tokens == getEntryTokens(es[i])
             inWindow == Ge(tsMs, windowStartMs) /\ Le(tsMs, nowMs)
             inWeek == Ge(tsMs, weekStartMs) /\ Le(tsMs, nowMs)
         IN  UsageScan(es, i + 1, windowStartMs, weekStartMs, nowMs,
                [windowTokens |-> acc.windowTokens + (IF inWindow THEN tokens ELSE 0),
                 weeklyTokens |-> acc.weeklyTokens + (IF inWeek THEN tokens ELSE 0),
                 modelBreakdown |->
                    IF inWeek THEN AddRequest(acc.modelBreakdown, es[i])
                    ELSE acc.modelBreakdown])

\* usage.cost = calculateCost(...) for every family
WithCosts(modelBreakdown) ==
    [family \in ModelFamily |->
        [modelBreakdown[family] EXCEPT
            !.cost = calculateCost(modelBreakdown[family].inputTokens,
                                   modelBreakdown[family].outputTokens,
                                   MODEL_PRICING[family].inputPerMTok,
                                   MODEL_PRICING[family].outputPerMTok)]]

\* variant: the total leaves out the family of unrecognised models
TotalCost_recognised(modelBreakdown) ==
    modelBreakdown["opus"].cost + modelBreakdown["sonnet"].cost
        + modelBreakdown["haiku"].cost

\* totalCost += usage.cost over Object.keys(modelBreakdown)
TotalCost(modelBreakdown) ==
    modelBreakdown["opus"].cost + modelBreakdown["sonnet"].cost
        + modelBreakdown["haiku"].cost + modelBreakdown["unknown"].cost

Percentage_uncapped(tokens, ceiling) == MulDiv(tokens, ceiling, 100)

\* Math.min((tokens / ceiling) * 100, 100)
Percentage(tokens, ceiling) == Min(MulDiv(tokens, ceiling, 100), 100)

\* the entries and the reference time as calculateUsageRate takes them in
\* this module: in minutes
InMinutes(es) ==
    [i \in DOMAIN es |-> [es[i] EXCEPT !.tsMs = IF @ = NaN THEN NaN ELSE @ * HOUR_MS]]

calculateUsage(es, plan, t) ==
    LET windowStartMs == getWindowStart(es, t)
        week == getWeekBoundaries(t)
        acc == UsageScan(es, 1, windowStartMs, week.weekStart, t,
                         [windowTokens |-> 0, weeklyTokens |-> 0,
                          modelBreakdown |-> [family \in ModelFamily |-> NoModelUsage]])
        modelBreakdown == WithCosts(acc.modelBreakdown)
        limits == PLAN_LIMITS[plan]
        weeklyTokenLimit == limits.weeklyHours * TOKENS_PER_HOUR_ESTIMATE
    IN  [plan |-> plan,
         windowTokens |-> acc.windowTokens,
         weeklyTokens |-> acc.weeklyTokens,
         windowPercentage |-> Percentage(acc.windowTokens, limits.windowTokens),
         weeklyPercentage |-> Percentage(acc.weeklyTokens, weeklyTokenLimit),
         windowStartTime |-> windowStartMs,
         windowEndTime |-> windowStartMs + WINDOW_DURATION_MS,
         weekStartTime |-> week.weekStart,
         weekEndTime |-> week.weekEnd,
         modelBreakdown |-> modelBreakdown,
         totalCost |-> TotalCost(modelBreakdown),
         projectBreakdown |-> calculateProjectBreakdown(es, week.weekStart, t),
         usageRate |-> calculateUsageRate(InMinutes(es), t * HOUR_MS,
                                          DEFAULT_RATE_WINDOW_MS)]

UsageInit ==
    /\ uin \in [entries : UsageLogs, plan : {"pro"}, now : UsageNows]
    /\ summary = NoSummary

CallCalculateUsage ==
    /\ summary = NoSummary
    /\ summary' = calculateUsage(uin.entries, uin.plan, uin.now)
    /\ UNCHANGED <<uin, schedVars, limitVars, windowVars, predictVars, rateVars, readerVars, weekVars, cacheVars, soundVars, syncVars>>

UsageNext == CallCalculateUsage
InitUsage == SchedInit /\ LimitIdle /\ WindowIdle /\ PredictIdle /\ RateIdle /\ UsageInit /\ ReaderIdle /\ WeekIdle /\ CacheIdle /\ SoundIdle /\ SyncIdle
SpecUsage == InitUsage /\ [][UsageNext]_vars

\* ------------------------- SpecReader: getAllUsageEntries, parseJsonlFile
ReaderNow == 7 * DAY + 2
BadTimestamp == -98                 \* a timestamp string Date cannot parse
\* new Date(entry.timestamp).getTime()
ParseTime(timestamp) == IF timestamp = BadTimestamp THEN NaN ELSE timestamp

\* the lines of a log file: a line JSON.parse rejects, a JSON object without
\* message.usage, and JSON objects with it (the l-th such line of file f)
MalformedLine == [kind |-> "malformed"]
OtherLine == [kind |-> "other"]
UsageLine(f, l) ==
    [kind |-> "usage",
     timestamp |-> IF l = 1 THEN 7 * DAY + 1 ELSE BadTimestamp,
     cwd |-> f, model |-> "claude-3-5-sonnet",
     input_tokens |-> 30 * l, output_tokens |-> 0]
Contents(f) ==
    {<<>>,
     <<UsageLine(f, 1)>>,
     <<UsageLine(f, 1), OtherLine>>,
     <<UsageLine(f, 1), UsageLine(f, 2)>>,
     <<UsageLine(f, 1), MalformedLine, UsageLine(f, 2)>>}
\* ok: a recent .jsonl file that reads to its end; readFails: one whose stream
\* emits 'error'; stale: mtime older than a week; statFails: stat() rejects;
\* notJsonl: another file name
LogFiles(f) ==
    {[status |-> st, lines |-> c] : st \in {"ok", "readFails"}, c \in Contents(f)}
    \cup {[status |-> st, lines |-> <<UsageLine(f, 1)>>] :
            st \in {"stale", "statFails", "notJsonl"}}
LogTrees ==
    UNION {{fs \in [1..n -> UNION {LogFiles(f) : f \in 1..MaxFiles}] :
                \A f \in 1..n : fs[f] \in LogFiles(f)} : n \in 0..MaxFiles}

\* the files parseJsonlFile is called for: .jsonl, stat() succeeded, recent
RecentFiles(files) ==
    {f \in 1..Len(files) : files[f].status \in {"ok", "readFails"}}

ParsedEntry(line) ==
    [tsMs |-> ParseTime(line.timestamp), cwd |-> line.cwd, model |-> line.model,
     input_tokens |-> line.input_tokens, output_tokens |-> line.output_tokens]

\* variant: no try/catch around JSON.parse
OnLine_noCatch(got, line) ==
    IF line.kind = "malformed" THEN [entries |-> got, threw |-> TRUE]
    ELSE IF line.kind = "usage"
    THEN [entries |-> Append(got, ParsedEntry(line)), threw |-> FALSE]
    ELSE [entries |-> got, threw |-> FALSE]

\* the 'line' handler of parseJsonlFile: the entries of this file after the
\* line, and whether an exception left the handler
OnLine(got, line) ==
    IF line.kind = "malformed" THEN [entries |-> got, threw |-> FALSE]
    ELSE IF line.kind = "usage"
    THEN [entries |-> Append(got, ParsedEntry(line)), threw |-> FALSE]
    ELSE [entries |-> got, threw |-> FALSE]

\* variant: all parseJsonlFile calls push into one array
Push_shared(got, f, es) ==
    [g \in DOMAIN got |-> got[g] \o SubSeq(es, Len(got[f]) + 1, Len(es))]

\* each parseJsonlFile call owns its entries array
Push(got, f, es) == [got EXCEPT ![f] = es]

\* allEntries.flat(): the per-file arrays in the order of recentFiles
RECURSIVE Flat(_, _, _)
Flat(got, f, n) ==
    IF f > n THEN <<>>
    ELSE (IF f \in DOMAIN got THEN got[f] ELSE <<>>) \o Flat(got, f + 1, n)

\* variant: a missing root directory is not caught
AccessRoot_throws(root) == IF root.exists THEN "ok" ELSE "throws"

\* await fsp.access(claudeDataPath) inside try/catch
AccessRoot(root) == IF root.exists THEN "ok" ELSE "empty"

ReaderInit ==
    /\ logRoot \in {[exists |-> TRUE, files |-> fs] : fs \in LogTrees}
                   \cup {[exists |-> FALSE, files |-> <<>>]}
    /\ reader = [pc |-> "start"]
    /\ merged = <<>>
    /\ rsummary = NoSummary

\* getAllUsageEntries up to the Promise.all over parseJsonlFile
GetAllUsageEntries ==
    /\ reader.pc = "start"
    /\ LET access == AccessRoot(logRoot)
           recent == RecentFiles(logRoot.files)
       IN  reader' =
              IF access = "ok"
              THEN [pc |-> "reading", open |-> recent, order |-> <<>>,
                    pos |-> [f \in recent |-> 0], got |-> [f \in recent |-> <<>>],
                    crashed |-> FALSE]
              ELSE [pc |-> "merged", open |-> {}, order |-> <<>>,
                    pos |-> <<>>, got |-> <<>>, crashed |-> access = "throws"]
    /\ UNCHANGED <<logRoot, merged, rsummary, schedVars, limitVars, windowVars,
                   predictVars, rateVars, usageVars, weekVars, cacheVars, soundVars, syncVars>>

\* rl 'line' for file f
LineEvent(f) ==
    /\ reader.pc = "reading"
    /\ f \in reader.open
    /\ reader.pos[f] < Len(logRoot.files[f].lines)
    /\ LET r == OnLine(reader.got[f], logRoot.files[f].lines[reader.pos[f] + 1])
       IN  reader' = [reader EXCEPT !.pos[f] = @ + 1,
                                    !.got = Push(@, f, r.entries),
                                    !.crashed = @ \/ r.threw]
    /\ UNCHANGED <<logRoot, merged, rsummary, schedVars, limitVars, windowVars,
                   predictVars, rateVars, usageVars, weekVars, cacheVars, soundVars, syncVars>>

\* rl 'close' for file f: resolve(entries)
CloseEvent(f) ==
    /\ reader.pc = "reading"
    /\ f \in reader.open
    /\ logRoot.files[f].status = "ok"
    /\ reader.pos[f] = Len(logRoot.files[f].lines)
    /\ reader' = [reader EXCEPT !.open = @ \ {f}, !.order = Append(@, f)]
    /\ UNCHANGED <<logRoot, merged, rsummary, schedVars, limitVars, windowVars,
                   predictVars, rateVars, usageVars, weekVars, cacheVars, soundVars, syncVars>>

\* rl 'error' for file f: resolve(entries) with what was read so far
ErrorEvent(f) ==
    /\ reader.pc = "reading"
    /\ f \in reader.open
    /\ logRoot.files[f].status = "readFails"
    /\ reader' = [reader EXCEPT !.open = @ \ {f}, !.order = Append(@, f)]
    /\ UNCHANGED <<logRoot, merged, rsummary, schedVars, limitVars, windowVars,
                   predictVars, rateVars, usageVars, weekVars, cacheVars, soundVars, syncVars>>

\* Promise.all settled: entries = allEntries.flat()
Merge ==
    /\ reader.pc = "reading"
    /\ reader.open = {}
    /\ merged' = Flat(reader.got, 1, Len(logRoot.files))
    /\ reader' = [reader EXCEPT !.pc = "merged"]
    /\ UNCHANGED <<logRoot, rsummary, schedVars, limitVars, windowVars,
                   predictVars, rateVars, usageVars, weekVars, cacheVars, soundVars, syncVars>>

\* the rest of calculateUsage on the entries getAllUsageEntries returned
Summarize ==
    /\ reader.pc = "merged"
    /\ rsummary' = calculateUsage(merged, "pro", ReaderNow)
    /\ reader' = [reader EXCEPT !.pc = "done"]
    /\ UNCHANGED <<logRoot, merged, schedVars, limitVars, windowVars,
                   predictVars, rateVars, usageVars, weekVars, cacheVars, soundVars, syncVars>>

ReaderNext ==
    \/ GetAllUsageEntries
    \/ \E f \in 1..MaxFiles : LineEvent(f)
    \/ \E f \in 1..MaxFiles : CloseEvent(f)
    \/ \E f \in 1..MaxFiles : ErrorEvent(f)
    \/ Merge
    \/ Summarize

InitReader ==
    SchedInit /\ LimitIdle /\ WindowIdle /\ PredictIdle /\ RateIdle /\ UsageIdle /\ ReaderInit /\ WeekIdle /\ CacheIdle /\ SoundIdle /\ SyncIdle
SpecReader == InitReader /\ [][ReaderNext]_vars

\* ------------------------------------------------ SpecWeek: getWeekBoundaries
WEEK == 7 * DAY
WeekTimes == 0..(MaxWeeks * WEEK - 1)

WeekInit ==
    /\ wkNow \in WeekTimes
    /\ boundaries = NoWeek

CallGetWeekBoundaries ==
    /\ boundaries = NoWeek
    /\ boundaries' = getWeekBoundaries(wkNow)
    /\ UNCHANGED <<wkNow, schedVars, limitVars, windowVars, predictVars, rateVars,
                   usageVars, readerVars, cacheVars, soundVars, syncVars>>

WeekNext == CallGetWeekBoundaries

InitWeek ==
    SchedInit /\ LimitIdle /\ WindowIdle /\ PredictIdle /\ RateIdle /\ UsageIdle /\ ReaderIdle /\ WeekInit /\ CacheIdle /\ SoundIdle /\ SyncIdle
SpecWeek == InitWeek /\ [][WeekNext]_vars

\* ------------------------- SpecCache: statusline-command.sh, the usage cache
\* a file is its body, how many of its CHUNKS have reached the disk, and the
\* invocation whose fetch produced it (0: the cache found at the start)
CHUNKS == 2
FetchBodies == {"usage", "error", "nullField", "garbage"}
Procs == 1..MaxProcs
File(body, written, by) == [body |-> body, written |-> written, by |-> by]

\* [[ -s "$temp_file" ]]
NonEmpty(file) == file # Absent /\ file.written > 0

\* variant: any complete JSON document passes
JqFiveHour_anyJson(file) ==
    /\ file # Absent
    /\ file.written = CHUNKS
    /\ file.body \in {"usage", "error", "nullField"}

\* jq -e '.five_hour': the file parses and .five_hour is neither null nor false
JqFiveHour(file) ==
    /\ file # Absent
    /\ file.written = CHUNKS
    /\ file.body = "usage"

CacheInit ==
    /\ fetchScript \in BOOLEAN
    /\ cache \in {Absent, File("usage", CHUNKS, 0)}
    /\ cacheFresh \in BOOLEAN
    /\ cache = Absent => ~cacheFresh
    /\ temp = [p \in Procs |-> Absent]
    /\ proc = [p \in Procs |-> [pc |-> "idle", out |-> Absent, fetched |-> "none"]]

\* the foreground of get_rate_limit_usage: a fresh cache is printed; otherwise
\* the background refresh is started and the cache, or {}, is printed
Invoke(p) ==
    /\ proc[p].pc = "idle"
    /\ proc' = [proc EXCEPT ![p] =
                  [pc |-> IF cache # Absent /\ cacheFresh THEN "done"
                          ELSE IF fetchScript THEN "open" ELSE "done",
                   out |-> IF cache # Absent THEN cache ELSE File("{}", CHUNKS, p),
                   fetched |-> "none"]]
    /\ UNCHANGED <<fetchScript, cache, cacheFresh, temp, schedVars, limitVars,
                   windowVars, predictVars, rateVars, usageVars, readerVars, weekVars, soundVars, syncVars>>

\* "$fetch_script" > "$temp_file": the redirection creates the temp file
Open(p) ==
    /\ proc[p].pc = "open"
    /\ \E body \in FetchBodies :
         /\ temp' = [temp EXCEPT ![p] = File(body, 0, p)]
         /\ proc' = [proc EXCEPT ![p].pc = "fetching", ![p].fetched = body]
    /\ UNCHANGED <<fetchScript, cache, cacheFresh, schedVars, limitVars,
                   windowVars, predictVars, rateVars, usageVars, readerVars, weekVars, soundVars, syncVars>>

\* the fetch script writes part of its output
WriteChunk(p) ==
    /\ proc[p].pc = "fetching"
    /\ temp[p].written < CHUNKS
    /\ temp' = [temp EXCEPT ![p].written = @ + 1]
    /\ UNCHANGED <<fetchScript, cache, cacheFresh, proc, schedVars, limitVars,
                   windowVars, predictVars, rateVars, usageVars, readerVars, weekVars, soundVars, syncVars>>

\* the fetch script exits, with all, part or none of its output written
FetchExits(p) ==
    /\ proc[p].pc = "fetching"
    /\ proc' = [proc EXCEPT ![p].pc = "validate"]
    /\ UNCHANGED <<fetchScript, cache, cacheFresh, temp, schedVars, limitVars,
                   windowVars, predictVars, rateVars, usageVars, readerVars, weekVars, soundVars, syncVars>>

\* if [[ -s "$temp_file" ]] && jq -e '.five_hour' "$temp_file"
Validate(p) ==
    /\ proc[p].pc = "validate"
    /\ proc' = [proc EXCEPT ![p].pc =
                  IF NonEmpty(temp[p]) /\ JqFiveHour(temp[p]) THEN "rename" ELSE "remove"]
    /\ UNCHANGED <<fetchScript, cache, cacheFresh, temp, schedVars, limitVars,
                   windowVars, predictVars, rateVars, usageVars, readerVars, weekVars, soundVars, syncVars>>

\* mv "$temp_file" "$CACHE_FILE"
Rename(p) ==
    /\ proc[p].pc = "rename"
    /\ cache' = temp[p]
    /\ cacheFresh' = TRUE
    /\ temp' = [temp EXCEPT ![p] = Absent]
    /\ proc' = [proc EXCEPT ![p].pc = "done"]
    /\ UNCHANGED <<fetchScript, schedVars, limitVars,
                   windowVars, predictVars, rateVars, usageVars, readerVars, weekVars, soundVars, syncVars>>

\* rm -f "$temp_file"
Remove(p) ==
    /\ proc[p].pc = "remove"
    /\ temp' = [temp EXCEPT ![p] = Absent]
    /\ proc' = [proc EXCEPT ![p].pc = "done"]
    /\ UNCHANGED <<fetchScript, cache, cacheFresh, schedVars, limitVars,
                   windowVars, predictVars, rateVars, usageVars, readerVars, weekVars, soundVars, syncVars>>

\* CACHE_TTL seconds pass since the cache file was written
Expire ==
    /\ cacheFresh
    /\ cacheFresh' = FALSE
    /\ UNCHANGED <<fetchScript, cache, temp, proc, schedVars, limitVars,
                   windowVars, predictVars, rateVars, usageVars, readerVars, weekVars, soundVars, syncVars>>

CacheNext ==
    \/ \E p \in Procs : Invoke(p)
    \/ \E p \in Procs : Open(p)
    \/ \E p \in Procs : WriteChunk(p)
    \/ \E p \in Procs : FetchExits(p)
    \/ \E p \in Procs : Validate(p)
    \/ \E p \in Procs : Rename(p)
    \/ \E p \in Procs : Remove(p)
    \/ Expire

InitCache ==
    SchedInit /\ LimitIdle /\ WindowIdle /\ PredictIdle /\ RateIdle /\ UsageIdle /\ ReaderIdle /\ WeekIdle /\ CacheInit /\ SoundIdle /\ SyncIdle
SpecCache == InitCache /\ [][CacheNext]_vars

\* ------------------------------------------------- SpecSound: SoundPlayer
SOUND_TYPE == {"complete", "warning", "limit"}
COOLDOWN_MS == 2                \* 60 s
WARNING_UTILIZATION == 90
SoundEpoch == 4                 \* Date.now() when the player is constructed
SoundPast == SoundEpoch - 1
SoundFuture == SoundEpoch + MaxSoundTime + 1

\* clauder.sounds.*; soundFile is what play() finds: a file it can hand to a
\* player command, no file, or a file playFile declines to spawn for
SoundConfigs ==
    {DefaultSoundConfig,
     [DefaultSoundConfig EXCEPT !.enabled = FALSE],
     [DefaultSoundConfig EXCEPT !.rateLimitWarning = FALSE],
     [DefaultSoundConfig EXCEPT !.rateLimitHit = FALSE],
     [DefaultSoundConfig EXCEPT !.warningThreshold = 95],
     [DefaultSoundConfig EXCEPT !.soundFile = "missing"],
     [DefaultSoundConfig EXCEPT !.soundFile = "unplayable"]}

SoundReadings == {50, 85, 99, LIMIT_UTILIZATION}
SoundPoll(u, r) ==
    [session |-> [utilization |-> u, resetsAt |-> r],
     weeklyAll |-> [utilization |-> 50, resetsAt |-> Null],
     weeklySonnet |-> AbsentLimit]
SoundPolls ==
    {SoundPoll(u, Null) : u \in SoundReadings}
    \cup {SoundPoll(LIMIT_UTILIZATION, r) : r \in {SoundPast, SoundFuture}}

\* the player, the playbacks heard so far and what the running call spawned
SCur ==
    [lastPlayed |-> player.lastPlayed, lastWarnedLevel |-> player.lastWarnedLevel,
     pending |-> player.pending, close |-> shist.close, limitAt |-> shist.limitAt,
     excursion |-> shist.excursion,
     spawned |-> "none", triggered |-> "none", reset |-> FALSE, reading |-> Null]

\* what the last call was when it was a poll or a threshold check: the
\* utilization the poll reported, the reading checkRateLimitThreshold got, the
\* sound it called play() for, and the sound it spawned
OtherCall ==
    [op |-> "other", reading |-> Null, polled |-> Null, triggered |-> "none",
     spawned |-> "none"]

\* a reading below both 90 and the configured warning threshold
BelowWarning(utilization) ==
    utilization < WARNING_UTILIZATION /\ utilization < sconfig.warningThreshold

\* the level announced in the current excursion: the sound play() was last
\* called for by a threshold check, forgotten when a reading is below the
\* warning band or resetThresholdState() is called
Excursion(p) ==
    IF p.triggered # "none" THEN p.triggered
    ELSE IF p.reset \/ (p.reading # Null /\ BelowWarning(p.reading)) THEN "none"
    ELSE p.excursion

SCommit(p, op, polled) ==
    /\ player' = [lastPlayed |-> p.lastPlayed, lastWarnedLevel |-> p.lastWarnedLevel,
                  pending |-> p.pending]
    /\ shist' = [close |-> p.close, limitAt |-> p.limitAt, excursion |-> Excursion(p)]
    /\ slast' = IF op = "other" THEN OtherCall
                ELSE [op |-> op, reading |-> p.reading, polled |-> polled,
                      triggered |-> p.triggered, spawned |-> p.spawned]

\* the instants of the playbacks of a type that the player has spawned
Spawns(p, soundType) ==
    {p.lastPlayed[soundType]} \cup
    {p.pending[n].now : n \in {m \in 1..Len(p.pending) : p.pending[m].soundType = soundType}}

Enabled(config, soundType) ==
    /\ config.enabled
    /\ soundType = "complete" => config.promptCompletion
    /\ soundType = "warning" => config.rateLimitWarning
    /\ soundType = "limit" => config.rateLimitHit

\* play() up to its await: the checks, the spawn, and the suspended
\* continuation that will set lastPlayed
play(p, soundType, t) ==
    IF ~Enabled(sconfig, soundType) THEN p
    ELSE IF t - p.lastPlayed[soundType] < COOLDOWN_MS THEN p
    ELSE IF sconfig.soundFile = "missing" THEN p
    ELSE [p EXCEPT
            !.pending = Append(@, [soundType |-> soundType, now |-> t]),
            !.close[soundType] =
                IF sconfig.soundFile = "found"
                THEN @ \/ \E at \in Spawns(p, soundType) : t - at < COOLDOWN_MS
                ELSE @,
            !.spawned = IF sconfig.soundFile = "found" THEN soundType ELSE @]

\* checkRateLimitThreshold as the older sound-player.ts has it: no
\* lastWarnedLevel, play() on every reading in or above the warning band
checkRateLimitThreshold_stateless(p, utilization, t) ==
    LET q == [p EXCEPT !.reading = utilization,
                       !.limitAt = IF utilization >= LIMIT_UTILIZATION THEN t ELSE @]
    IN  IF utilization >= LIMIT_UTILIZATION
        THEN [play(q, "limit", t) EXCEPT !.triggered = "limit"]
        ELSE IF utilization >= WARNING_UTILIZATION
                \/ utilization >= sconfig.warningThreshold
        THEN [play(q, "warning", t) EXCEPT !.triggered = "warning"]
        ELSE q

checkRateLimitThreshold(p, utilization, t) ==
    LET q == [p EXCEPT !.reading = utilization,
                       !.limitAt = IF utilization >= LIMIT_UTILIZATION THEN t ELSE @]
    IN  IF utilization >= LIMIT_UTILIZATION
        THEN IF q.lastWarnedLevel # "limit"
             THEN [play(q, "limit", t) EXCEPT !.lastWarnedLevel = "limit",
                                              !.triggered = "limit"]
             ELSE q
        ELSE IF utilization >= WARNING_UTILIZATION
                \/ utilization >= sconfig.warningThreshold
        THEN IF q.lastWarnedLevel = "none"
             THEN [play(q, "warning", t) EXCEPT !.lastWarnedLevel = "warning",
                                                !.triggered = "warning"]
             ELSE q
        ELSE [q EXCEPT !.lastWarnedLevel = "none"]

resetThresholdState(p) == [p EXCEPT !.lastWarnedLevel = "none", !.reset = TRUE]

SoundInit ==
    /\ sclock = SoundEpoch
    /\ sconfig \in SoundConfigs
    /\ player = [lastPlayed |-> [soundType \in SOUND_TYPE |-> 0],
                 lastWarnedLevel |-> "none", pending |-> <<>>]
    /\ shist = [close |-> [soundType \in SOUND_TYPE |-> FALSE], limitAt |-> Null,
                excursion |-> "none"]
    /\ slast = OtherCall

\* a caller invokes play(soundType) and does not wait for it
Play(soundType) ==
    /\ Len(player.pending) < MaxPending
    /\ SCommit(play(SCur, soundType, sclock), "other", Null)
    /\ UNCHANGED <<sclock, sconfig, schedVars, limitVars, windowVars, predictVars,
                   rateVars, usageVars, readerVars, weekVars, cacheVars, syncVars>>

\* play() resumes after its await: this.lastPlayed.set(soundType, now)
PlayResumes ==
    /\ player.pending # <<>>
    /\ LET head == Head(player.pending)
       IN  SCommit([SCur EXCEPT !.pending = Tail(@),
                                !.lastPlayed[head.soundType] = head.now],
                   "other", Null)
    /\ UNCHANGED <<sclock, sconfig, schedVars, limitVars, windowVars, predictVars,
                   rateVars, usageVars, readerVars, weekVars, cacheVars, syncVars>>

CheckRateLimitThreshold(utilization) ==
    /\ Len(player.pending) < MaxPending
    /\ SCommit(checkRateLimitThreshold(SCur, utilization, sclock), "check", Null)
    /\ UNCHANGED <<sclock, sconfig, schedVars, limitVars, windowVars, predictVars,
                   rateVars, usageVars, readerVars, weekVars, cacheVars, syncVars>>

\* clearLimitPause() -> soundPlayer.resetThresholdState()
ResetThresholdState ==
    /\ SCommit(resetThresholdState(SCur), "other", Null)
    /\ UNCHANGED <<sclock, sconfig, schedVars, limitVars, windowVars, predictVars,
                   rateVars, usageVars, readerVars, weekVars, cacheVars, syncVars>>

\* updateStatusBar from getLimitReset(result.data) on: a LimitReset pauses
\* (and, when its instant has passed, clears the pause at once); otherwise
\* the larger of the session and weekly-all utilizations goes to the player
PollSuccess(data) ==
    /\ Len(player.pending) < MaxPending
    /\ LET resetTime == getLimitReset(data)
           maxUtil == Max(data.session.utilization, data.weeklyAll.utilization)
           p == IF resetTime # NoLimit
                THEN IF computeResumeDelay(resetTime, sclock) <= 0
                     THEN resetThresholdState(SCur) ELSE SCur
                ELSE checkRateLimitThreshold(SCur, maxUtil, sclock)
       IN  SCommit(p, "poll", maxUtil)
    /\ UNCHANGED <<sclock, sconfig, schedVars, limitVars, windowVars, predictVars,
                   rateVars, usageVars, readerVars, weekVars, cacheVars, syncVars>>

\* half a minute passes; suspended continuations have run by then
SoundTick ==
    /\ player.pending = <<>>
    /\ sclock < SoundEpoch + MaxSoundTime
    /\ sclock' = sclock + 1
    /\ slast' = OtherCall
    /\ UNCHANGED <<sconfig, player, shist, schedVars, limitVars, windowVars, predictVars,
                   rateVars, usageVars, readerVars, weekVars, cacheVars, syncVars>>

\* SpecPlay: callers of play(); SpecSound: the threshold checks of the polls
PlayNext ==
    \/ \E soundType \in SOUND_TYPE : Play(soundType)
    \/ PlayResumes
    \/ SoundTick

SoundNext ==
    \/ PlayResumes
    \/ \E utilization \in SoundReadings : CheckRateLimitThreshold(utilization)
    \/ ResetThresholdState
    \/ \E data \in SoundPolls : PollSuccess(data)
    \/ SoundTick

InitSound ==
    SchedInit /\ LimitIdle /\ WindowIdle /\ PredictIdle /\ RateIdle /\ UsageIdle /\ ReaderIdle /\ WeekIdle /\ CacheIdle /\ SoundInit /\ SyncIdle
SpecSound == InitSound /\ [][SoundNext]_vars

InitPlay ==
    SchedInit /\ LimitIdle /\ WindowIdle /\ PredictIdle /\ RateIdle /\ UsageIdle /\ ReaderIdle /\ WeekIdle /\ CacheIdle /\ SoundInit /\ SyncIdle
SpecPlay == InitPlay /\ [][PlayNext]_vars

\* ------------------------------------- SpecSync: sessions queued for sync
\* getRecentSessions' default limit of 500, scaled
SESSION_LIMIT == 2

Range(seq) == {seq[i] : i \in DOMAIN seq}

\* sessionLog[n] is the file that holds the n-th usage line written, whose
\* timestamp is n; the lines of one file, in the order they were appended
RECURSIVE FileLines(_, _, _)
FileLines(log, f, n) ==
    IF n > Len(log) THEN <<>>
    ELSE (IF log[n] = f THEN <<n>> ELSE <<>>) \o FileLines(log, f, n + 1)

\* getAllUsageEntries: the files' entries concatenated in directory order
RECURSIVE AllUsageEntries(_, _)
AllUsageEntries(log, f) ==
    IF f > MaxFiles THEN <<>>
    ELSE FileLines(log, f, 1) \o AllUsageEntries(log, f + 1)

\* the loop of getRecentSessions: entries after sinceMs, in log order, until
\* the limit is reached
RECURSIVE SessionScan(_, _, _, _, _)
SessionScan(es, i, sinceMs, limit, sessions) ==
    IF i > Len(es) THEN sessions
    ELSE IF es[i] <= sinceMs THEN SessionScan(es, i + 1, sinceMs, limit, sessions)
    ELSE LET pushed == Append(sessions, es[i]) IN
         IF Len(pushed) >= limit THEN pushed
         ELSE SessionScan(es, i + 1, sinceMs, limit, pushed)

\* sessions.sort by timestamp, most recent first (a stable sort)
RECURSIVE InsertByTime(_, _)
InsertByTime(sorted, session) ==
    IF sorted = <<>> THEN <<session>>
    ELSE IF Head(sorted) >= session THEN <<Head(sorted)>> \o InsertByTime(Tail(sorted), session)
    ELSE <<session>> \o sorted

RECURSIVE SortByTime(_)
SortByTime(sessions) ==
    IF sessions = <<>> THEN <<>>
    ELSE InsertByTime(SortByTime(SubSeq(sessions, 1, Len(sessions) - 1)),
                      sessions[Len(sessions)])

getRecentSessions(es, sinceTimestamp, limit) ==
    LET sinceMs == IF sinceTimestamp = Null THEN 0 ELSE sinceTimestamp
        sorted == SortByTime(SessionScan(es, 1, sinceMs, limit, <<>>))
    IN  SubSeq(sorted, 1, Min(limit, Len(sorted)))

\* pendingSessions.reduce(...) of sync(): the session with the latest
\* timestamp, the first of them on a tie
RECURSIVE MostRecentSession(_, _, _)
MostRecentSession(sessions, i, latest) ==
    IF i > Len(sessions) THEN latest
    ELSE MostRecentSession(sessions, i + 1,
                           IF sessions[i] > latest THEN sessions[i] ELSE latest)

SyncInit ==
    /\ sessionLog = <<>>
    /\ lastSyncedSessionTimestamp = Null
    /\ pendingSessions = <<>>
    /\ reads = {}
    /\ syncs = <<>>
    /\ sent = {}
    /\ synclast = [op |-> "init", payload |-> <<>>]

\* Claude Code appends a usage line, stamped with the current time, to a file
AppendLine(f) ==
    /\ Len(sessionLog) < MaxSessions
    /\ sessionLog' = Append(sessionLog, f)
    /\ synclast' = [op |-> "appendLine", payload |-> <<>>]
    /\ UNCHANGED <<lastSyncedSessionTimestamp, pendingSessions, reads, syncs, sent,
                   schedVars, limitVars, windowVars, predictVars, rateVars, usageVars,
                   readerVars, weekVars, cacheVars, soundVars>>

\* a poll calls getRecentSessions(getLastSyncedSessionTimestamp()) and awaits it
QuerySessions ==
    /\ lastSyncedSessionTimestamp \notin reads
    /\ reads' = reads \cup {lastSyncedSessionTimestamp}
    /\ synclast' = [op |-> "querySessions", payload |-> <<>>]
    /\ UNCHANGED <<sessionLog, lastSyncedSessionTimestamp, pendingSessions, syncs, sent,
                   schedVars, limitVars, windowVars, predictVars, rateVars, usageVars,
                   readerVars, weekVars, cacheVars, soundVars>>

\* getRecentSessions resolves and the poll queues what it returned; polls
\* overlap, so another read started with the same timestamp may remain
SetSessions(sinceTimestamp) ==
    /\ sinceTimestamp \in reads
    /\ LET recentSessions ==
            getRecentSessions(AllUsageEntries(sessionLog, 1), sinceTimestamp, SESSION_LIMIT)
       IN  pendingSessions' =
                IF Len(recentSessions) > 0 THEN recentSessions ELSE pendingSessions
    /\ reads' \in {reads, reads \ {sinceTimestamp}}
    /\ synclast' = [op |-> "setSessions", payload |-> <<>>]
    /\ UNCHANGED <<sessionLog, lastSyncedSessionTimestamp, syncs, sent,
                   schedVars, limitVars, windowVars, predictVars, rateVars, usageVars,
                   readerVars, weekVars, cacheVars, soundVars>>

\* sync() up to its await: the payload carries the sessions pending now
Sync ==
    /\ Len(syncs) < MaxSyncs
    /\ syncs' = Append(syncs, pendingSessions)
    /\ sent' = sent \cup Range(pendingSessions)
    /\ synclast' = [op |-> "sync", payload |-> pendingSessions]
    /\ UNCHANGED <<sessionLog, lastSyncedSessionTimestamp, pendingSessions, reads,
                   schedVars, limitVars, windowVars, predictVars, rateVars, usageVars,
                   readerVars, weekVars, cacheVars, soundVars>>

Without(seq, i) == SubSeq(seq, 1, i - 1) \o SubSeq(seq, i + 1, Len(seq))

\* sync() after apiClient.sync(payload) resolved
SyncResolves(i, status) ==
    /\ i \in DOMAIN syncs
    /\ syncs' = Without(syncs, i)
    /\ IF status = "success"
       THEN /\ lastSyncedSessionTimestamp' =
                    IF Len(pendingSessions) > 0
                    THEN MostRecentSession(pendingSessions, 2, pendingSessions[1])
                    ELSE lastSyncedSessionTimestamp
            /\ pendingSessions' = <<>>
       ELSE UNCHANGED <<lastSyncedSessionTimestamp, pendingSessions>>
    /\ synclast' = [op |-> status, payload |-> syncs[i]]
    /\ UNCHANGED <<sessionLog, reads, sent,
                   schedVars, limitVars, windowVars, predictVars, rateVars, usageVars,
                   readerVars, weekVars, cacheVars, soundVars>>

SyncNext ==
    \/ \E f \in 1..MaxFiles : AppendLine(f)
    \/ QuerySessions
    \/ \E sinceTimestamp \in reads : SetSessions(sinceTimestamp)
    \/ Sync
    \/ \E i \in 1..MaxSyncs, status \in {"success", "error"} : SyncResolves(i, status)

InitSync ==
    SchedInit /\ LimitIdle /\ WindowIdle /\ PredictIdle /\ RateIdle /\ UsageIdle /\ ReaderIdle /\ WeekIdle /\ CacheIdle /\ SoundIdle /\ SyncInit
SpecSync == InitSync /\ [][SyncNext]_vars

\* ================================================================== claims
Paused == shouldRemainPaused(limitReset, now)
PollTriggers ==
    {"refreshTick", "manualRefresh", "configChange", "countdownTick", "predictionUpdate"}

\* C1: while Paused (a LimitReset is held and its reset instant is in the
\* future) the refresh interval is not armed, none of the triggers (interval
\* tick, manual refresh, configuration change, countdown tick, prediction
\* callback) issues a fetchUsage call, and no fetchUsage call is ever issued
\* with the scheduler left Paused.
C1_NoPollingWhilePaused ==
    /\ [](Paused => ~refreshInterval /\ refreshTimers = 0)
    /\ [][/\ (Paused /\ last'.op \in PollTriggers) => last'.issued = 0
          /\ last'.issued > 0 => ~Paused']_vars

C1_Witness ==
    /\ Paused
    /\ last.op \in {"manualRefresh", "configChange", "predictionUpdate", "countdownTick"}
    /\ fetching + computing = 0

\* C2: a manual refresh while Paused changes nothing of the scheduler (held
\* LimitReset, resume timer, unarmed refresh interval, countdown, polls in
\* flight), issues no fetch, and leaves the limit-reached display of the held
\* LimitReset on the status bar.
C2_ManualRefreshWhilePausedIsNoOp ==
    [][(Paused /\ last'.op = "manualRefresh") =>
          /\ limitReset' = limitReset
          /\ limitResumeTimeout' = limitResumeTimeout
          /\ resumeTimers' = resumeTimers
          /\ refreshInterval' = FALSE /\ refreshTimers' = 0
          /\ countdownInterval' = countdownInterval
          /\ countdownTimers' = countdownTimers
          /\ fetching' = fetching /\ computing' = computing
          /\ last'.issued = 0
          /\ display' = View("limitReached", limitReset)]_vars

C2_Witness ==
    /\ Paused
    /\ last.op = "manualRefresh"
    /\ display = View("limitReached", limitReset)
    /\ limitResumeTimeout = limitReset.resetAt + RESUME_MARGIN

\* C3 as stated: a successful poll moves the scheduler from Normal to Paused
\* iff the snapshot has a tracked limit at utilization >= 100 with a non-null
\* reset instant, and getLimitReset returns a LimitReset exactly then.
C3_PausedIffBreached ==
    [][(last'.op = "poll" /\ limitReset = NoLimit) =>
          /\ Paused' <=> last'.seen.breached
          /\ last'.seen.found # NoLimit <=> last'.seen.breached]_vars

\* C3 amended: a successful poll moves the scheduler from Normal to Paused
\* iff the snapshot has a tracked limit at utilization >= 100 with a non-null
\* reset instant and the reset instant of the first such limit is still in
\* the future when the result is processed; getLimitReset returns a
\* LimitReset exactly when such a limit exists.
C3_PausedIffBreachedAndFuture ==
    [][(last'.op = "poll" /\ limitReset = NoLimit) =>
          /\ Paused' <=>
                (last'.seen.breached /\ last'.seen.found.resetAt > now)
          /\ Paused' => limitReset' = last'.seen.found
          /\ last'.seen.found # NoLimit <=> last'.seen.breached]_vars

C3_Witness ==
    /\ last.op = "poll"
    /\ last.seen.breached
    /\ Paused
    /\ limitReset = last.seen.found
    /\ last.issued = 0

\* C4: when limits qualify (utilization >= 100 with a reset instant) the
\* LimitReset returned is the first qualifying one in the order session,
\* weeklyAll, weeklySonnet, with that limit's reset instant; a limit at >= 100
\* without a reset instant is skipped and does not block a later one.
FirstBreached(data) ==
    IF "session" \in Breached(data) THEN "session"
    ELSE IF "weeklyAll" \in Breached(data) THEN "weeklyAll"
    ELSE "weeklySonnet"

C4_FirstQualifyingWins ==
    (lresult # Pending /\ Breached(ldata) # {}) =>
        /\ lresult.kind = FirstBreached(ldata)
        /\ lresult.resetAt = ldata[FirstBreached(ldata)].resetsAt

C4_Witness ==
    /\ lresult # Pending
    /\ "session" \in Hot(ldata) \ Breached(ldata)
    /\ {"weeklyAll", "weeklySonnet"} \subseteq Breached(ldata)
    /\ ldata.weeklyAll.resetsAt # ldata.weeklySonnet.resetsAt
    /\ lresult = [kind |-> "weeklyAll", resetAt |-> ldata.weeklyAll.resetsAt]

\* C5: a snapshot at utilization >= 100 only on limits without a reset
\* instant leaves the (active) scheduler Normal: no LimitReset held, the
\* refresh interval still armed, no resume timer, and no immediate poll.
C5_NullResetStaysNormal ==
    [][(/\ last'.op = "poll"
        /\ phase = "active" /\ limitReset = NoLimit
        /\ last'.seen.hot /\ ~last'.seen.breached) =>
          /\ limitReset' = NoLimit
          /\ refreshInterval /\ refreshInterval' /\ refreshTimers' = 1
          /\ limitResumeTimeout' = Null /\ resumeTimers' = EmptyBag
          /\ countdownTimers' = 0
          /\ last'.issued = 0
          /\ display' = View("usage", NoLimit)]_vars

C5_Witness ==
    /\ last.op = "poll"
    /\ phase = "active"
    /\ last.seen.hot /\ ~last.seen.breached
    /\ limitReset = NoLimit /\ refreshInterval /\ resumeTimers = EmptyBag

\* C6: a held LimitReset is never discarded (other than by deactivation)
\* before its reset instant.
C6_NeverResumedBeforeReset ==
    [][(limitReset # NoLimit /\ limitReset' = NoLimit /\ last'.op # "deactivate") =>
          now >= limitReset.resetAt]_vars

\* C7: every transition from a held LimitReset back to Normal (other than
\* deactivation) issues exactly one fetchUsage call in the same step and
\* re-arms the refresh interval.
C7_ResumePollsOnce ==
    [][(limitReset # NoLimit /\ limitReset' = NoLimit /\ last'.op # "deactivate") =>
          /\ last'.issued = 1
          /\ fetching' >= 1
          /\ display' = View("loading", NoLimit)
          /\ refreshInterval']_vars

C7_Witness ==
    /\ last.op = "resumeTimer"
    /\ limitReset = NoLimit
    /\ last.issued = 1
    /\ fetching = 1 /\ computing = 0
    /\ refreshTimers = 1

\* C8: a LimitReset comes to be held only in a poll whose remote snapshot has a
\* limit at utilization >= 100 with a reset instant, and it is the one
\* getLimitReset found there; a poll without such a limit leaves the held
\* value alone whatever the local summary says, and so does a failed or
\* no-token fetch.
C8_LimitResetOnlyFromRemote ==
    [][/\ (limitReset' # limitReset /\ limitReset' # NoLimit) =>
              /\ last'.op = "poll"
              /\ last'.seen.breached
              /\ limitReset' = last'.seen.found
       /\ (last'.op = "poll" /\ ~last'.seen.breached) =>
              limitReset' = limitReset /\ resumeTimers' = resumeTimers
       /\ last'.op \in {"no_token", "error"} => limitReset' = limitReset]_vars

C8_Witness ==
    /\ last.op = "poll"
    /\ last.seen.local # NullLocal
    /\ last.seen.local.windowPercentage = 100
    /\ last.seen.local.weeklyPercentage = 100
    /\ ~last.seen.breached
    /\ limitReset = NoLimit
    /\ phase = "active"

\* C9: the rolling window start is never earlier than t - 5h and never later
\* than t.
C9_WindowStartWithinLastFiveHours ==
    windowStart # NoStart =>
        /\ windowStart.start >= wnow - WINDOW_DURATION_MS
        /\ windowStart.start <= wnow

\* C10: the rolling window start is the earliest event timestamp within the
\* last 5 hours of now, or exactly now - 5h when no event lies in that range.
InLastWindow(es, t) ==
    {es[i].tsMs : i \in 1..Len(es)} \cap ((t - WINDOW_DURATION_MS)..t)

SetMin(S) == CHOOSE x \in S : \A y \in S : x <= y

C10_WindowStartIsEarliestRecentEvent ==
    windowStart # NoStart =>
        windowStart.start =
            IF InLastWindow(entries, wnow) = {}
            THEN wnow - WINDOW_DURATION_MS
            ELSE SetMin(InLastWindow(entries, wnow))

\* ------------------------------------------------------------ SpecPredict
Predicted == prediction # NoPrediction
AtLimitInput == pin.currentSessionPercent >= 100 \/ pin.currentWeeklyPercent >= 100

\* C11 (as stated): whenever the session or the weekly percentage is >= 100,
\* calculatePredictions returns canPredict = false with reason
\* 'already_at_limit', whatever the sign of the usage rate.
C11_AtLimitWhateverTheRate ==
    (Predicted /\ AtLimitInput) =>
        /\ prediction.canPredict = FALSE
        /\ prediction.reason = "already_at_limit"

\* C11 (amended): whenever the session or the weekly percentage is >= 100 and
\* the rate is strictly positive, calculatePredictions returns canPredict =
\* false with reason 'already_at_limit'; with a rate <= 0 the reason is
\* 'no_recent_usage' instead.
C11_AtLimitWhenRatePositive ==
    (Predicted /\ AtLimitInput) =>
        /\ prediction.canPredict = FALSE
        /\ prediction.reason =
              IF pin.rate.tokensPerHour > 0 THEN "already_at_limit"
              ELSE "no_recent_usage"

C11_Witness ==
    /\ Predicted
    /\ pin.currentSessionPercent < 100
    /\ pin.currentWeeklyPercent >= 100
    /\ pin.rate.tokensPerHour > 0
    /\ prediction.reason = "already_at_limit"

\* C12: whenever rate.tokensPerHour <= 0, calculatePredictions returns
\* canPredict = false with reason 'no_recent_usage', also when a percentage is
\* already >= 100 (the rate check comes first).
C12_NoRecentUsageFirst ==
    (Predicted /\ pin.rate.tokensPerHour <= 0) =>
        /\ prediction.canPredict = FALSE
        /\ prediction.reason = "no_recent_usage"

C12_Witness ==
    /\ Predicted
    /\ pin.rate.tokensPerHour <= 0
    /\ AtLimitInput
    /\ prediction.reason = "no_recent_usage"

\* C13: a LimitPrediction either has canPredict = true, all four of
\* sessionLimitAt, weeklyLimitAt, timeToSessionLimit, timeToWeeklyLimit present
\* and no reason, or has canPredict = false, all four null and reason
\* 'no_recent_usage' or 'already_at_limit'.
FourFields(p) ==
    {p.sessionLimitAt, p.weeklyLimitAt, p.timeToSessionLimit, p.timeToWeeklyLimit}

C13_TwoShapes ==
    Predicted =>
        \/ /\ prediction.canPredict = TRUE
           /\ Null \notin FourFields(prediction)
           /\ prediction.reason = "undefined"
        \/ /\ prediction.canPredict = FALSE
           /\ FourFields(prediction) = {Null}
           /\ prediction.reason \in {"no_recent_usage", "already_at_limit"}

C13_Witness ==
    /\ Predicted
    /\ prediction.canPredict = FALSE
    /\ prediction.reason = "already_at_limit"
    /\ pin.currentSessionPercent < 100

\* C20: when canPredict is true, timeToSessionLimit is the time the rate needs
\* for the tokens left to the window ceiling, (100 - sessionPct) / 100 *
\* windowCeiling, timeToWeeklyLimit the same for the weekly ceiling
\* (weeklyHours * 50000), and each predicted instant is now plus that time;
\* rate 50000/h at 50% of the pro ceiling gives exactly 5 hours.
WindowCeiling(plan) ==
    CASE plan = "pro" -> 500 [] plan = "max5" -> 2500 [] plan = "max20" -> 10000
WeeklyCeiling(plan) ==
    CASE plan = "pro" -> 3000 [] plan = "max5" -> 10500 [] plan = "max20" -> 18000

C20_TimeToLimit ==
    (Predicted /\ prediction.canPredict = TRUE) =>
        /\ prediction.timeToSessionLimit * pin.rate.tokensPerHour * 100 =
              (100 - pin.currentSessionPercent) * WindowCeiling(pin.plan) * 60
        /\ prediction.timeToWeeklyLimit * pin.rate.tokensPerHour * 100 =
              (100 - pin.currentWeeklyPercent) * WeeklyCeiling(pin.plan) * 60
        /\ prediction.sessionLimitAt = pin.now + prediction.timeToSessionLimit
        /\ prediction.weeklyLimitAt = pin.now + prediction.timeToWeeklyLimit
        /\ (pin.rate.tokensPerHour = 50 /\ pin.currentSessionPercent = 50
              /\ pin.plan = "pro") => prediction.timeToSessionLimit = 5 * 60

C20_Witness ==
    /\ Predicted
    /\ prediction.canPredict = TRUE
    /\ pin.rate.tokensPerHour = 50
    /\ pin.currentSessionPercent = 50
    /\ pin.currentWeeklyPercent = 20
    /\ pin.plan = "pro"
    /\ prediction.timeToSessionLimit = 300
    /\ prediction.timeToWeeklyLimit = 2880

\* --------------------------------------------------------------- SpecRate
Rated == usageRate # NoRate

\* the events of the log inside the sample window [now - sampleWindow, now]
InSample ==
    {i \in 1..Len(rin.entries) :
        /\ rin.entries[i].tsMs # NaN
        /\ rin.entries[i].tsMs >= rin.now - rin.sampleWindowMs
        /\ rin.entries[i].tsMs <= rin.now}
\* the events the filter of calculateUsageRate does not reject
NotRejected ==
    {i \in 1..Len(rin.entries) :
        \/ rin.entries[i].tsMs = NaN
        \/ /\ rin.entries[i].tsMs >= rin.now - rin.sampleWindowMs
           /\ rin.entries[i].tsMs <= rin.now}

RECURSIVE TokenSum(_, _)
TokenSum(es, I) ==
    IF I = {} THEN 0
    ELSE LET i == CHOOSE j \in I : TRUE
         IN  es[i].input_tokens + es[i].output_tokens + TokenSum(es, I \ {i})

RECURSIVE SumOver(_, _, _)
SumOver(es, I, f) ==
    IF I = {} THEN 0
    ELSE LET i == CHOOSE j \in I : TRUE
         IN  es[i][f] + SumOver(es, I \ {i}, f)

\* now minus the timestamp of the oldest event inside the sample window
SampleElapsed ==
    rin.now - SetMin({rin.now} \cup {rin.entries[i].tsMs : i \in InSample})

Summarized == summary # NoSummary
UEntries == uin.entries
UIndex == 1..Len(UEntries)

\* the events of the calendar week so far, [weekStart, now]
InWeek ==
    {i \in UIndex :
        /\ UEntries[i].tsMs # NaN
        /\ UEntries[i].tsMs >= summary.weekStartTime
        /\ UEntries[i].tsMs <= uin.now}
\* the events of the rolling window, [windowStart, now]
InWindow ==
    {i \in UIndex :
        /\ UEntries[i].tsMs # NaN
        /\ UEntries[i].tsMs >= summary.windowStartTime
        /\ UEntries[i].tsMs <= uin.now}
\* the events the week filter of calculateProjectBreakdown does not reject
WeekNotRejected == InWeek \cup {i \in UIndex : UEntries[i].tsMs = NaN}

PathOf(i) == IF UEntries[i].cwd # Null THEN UEntries[i].cwd ELSE UnknownPath
Listed == summary.projectBreakdown.projects
ListedPaths == {Listed[k].projectPath : k \in 1..Len(Listed)}
Merged == \A k, l \in 1..Len(Listed) : Listed[k].projectPath = Listed[l].projectPath => k = l

WeeklyVolume(path) == TokenSum(UEntries, {i \in InWeek : PathOf(i) = path})
WeekProjects == {PathOf(i) : i \in InWeek}
FirstSeen(path) == SetMin({i \in InWeek : PathOf(i) = path})

C15_TopTenByWeeklyVolume ==
    Summarized =>
        /\ Len(Listed) = Min(TOP_PROJECTS, Cardinality(WeekProjects))
        /\ ListedPaths \subseteq WeekProjects
        /\ \A q \in WeekProjects \ ListedPaths : \A k \in 1..Len(Listed) :
              WeeklyVolume(Listed[k].projectPath) >= WeeklyVolume(q)
        /\ \A k \in 1..(Len(Listed) - 1) :
              LET a == Listed[k].projectPath
                  b == Listed[k + 1].projectPath
              IN  \/ WeeklyVolume(a) > WeeklyVolume(b)
                  \/ WeeklyVolume(a) = WeeklyVolume(b) /\ FirstSeen(a) < FirstSeen(b)

\* C16: windowPercentage and weeklyPercentage lie in [0, 100], each being
\* min(100, tokens / ceiling * 100) for the plan's rolling-window ceiling and
\* its weekly ceiling, weeklyHours * 50000 (500 and 60 * 50 for pro, in
\* thousands of tokens).
CappedShare(pct, tokens, ceiling) ==
    /\ pct \in 0..100
    /\ tokens >= ceiling => pct = 100
    /\ tokens < ceiling => pct * ceiling = tokens * 100

C16_PercentagesCapped ==
    (Summarized /\ uin.plan = "pro") =>
        /\ CappedShare(summary.windowPercentage, summary.windowTokens, 500)
        /\ CappedShare(summary.weeklyPercentage, summary.weeklyTokens, 60 * 50)

C16_Witness ==
    /\ Summarized
    /\ summary.windowTokens > 500
    /\ summary.windowPercentage = 100
    /\ summary.weeklyPercentage > 0
    /\ summary.weeklyPercentage < 100

\* C17: an event is counted in the rolling-window bucket exactly when its
\* timestamp lies in [windowStart, now] and in the weekly bucket exactly when
\* it lies in [weekStart, now], each independently of the other.
C17_BucketsIndependent ==
    Summarized =>
        /\ summary.windowTokens = TokenSum(UEntries, InWindow)
        /\ summary.weeklyTokens = TokenSum(UEntries, InWeek)

C17_Witness ==
    /\ Summarized
    /\ InWindow \ InWeek # {}
    /\ InWindow \cap InWeek # {}
    /\ summary.windowTokens > summary.weeklyTokens
    /\ summary.weeklyTokens > 0

\* C21: the costs of the four model families in the summary add up to
\* totalCost, each family's cost being the cost of its events of the week.
FamilyCost(family) ==
    LET mine == {i \in InWeek : getModelFamily(UEntries[i].model) = family}
    IN  SumOver(UEntries, mine, "input_tokens") * MODEL_PRICING[family].inputPerMTok
        + SumOver(UEntries, mine, "output_tokens") * MODEL_PRICING[family].outputPerMTok

C21_FamilyCostsAddUp ==
    Summarized =>
        /\ summary.totalCost =
              summary.modelBreakdown["opus"].cost + summary.modelBreakdown["sonnet"].cost
              + summary.modelBreakdown["haiku"].cost + summary.modelBreakdown["unknown"].cost
        /\ \A family \in ModelFamily :
              summary.modelBreakdown[family].cost = FamilyCost(family)

C21_Witness ==
    /\ Summarized
    /\ summary.modelBreakdown["unknown"].cost > 0
    /\ summary.modelBreakdown["haiku"].cost > 0
    /\ summary.totalCost =
          summary.modelBreakdown["unknown"].cost + summary.modelBreakdown["haiku"].cost

\* ------------------------------------------------------ SpecReader claims
ReadDone == reader.pc \in {"merged", "done"}
ReaderSummarized == reader.pc = "done"

\* C22: when the event collection is empty, the case of a missing log root
\* included, the summary is produced and has zero window tokens, zero weekly
\* tokens, zero cost and an empty project breakdown.
C22_EmptyLogEmptySummary ==
    /\ (ReadDone /\ ~logRoot.exists) => (merged = <<>> /\ ~reader.crashed)
    /\ (ReaderSummarized /\ merged = <<>>) =>
        /\ ~reader.crashed
        /\ rsummary.windowTokens = 0
        /\ rsummary.weeklyTokens = 0
        /\ rsummary.totalCost = 0
        /\ \A family \in ModelFamily : rsummary.modelBreakdown[family].cost = 0
        /\ rsummary.projectBreakdown.projects = <<>>
        /\ rsummary.projectBreakdown.totalTokens = 0
        /\ rsummary.projectBreakdown.totalCost = 0

C22_Witness ==
    /\ ReaderSummarized
    /\ ~logRoot.exists
    /\ rsummary.windowPercentage = 0
    /\ rsummary.weeklyPercentage = 0

\* the usage-bearing lines among the first n lines of a file, as entries
RECURSIVE UsageOf(_, _)
UsageOf(lines, n) ==
    IF n = 0 THEN <<>>
    ELSE IF lines[n].kind = "usage"
    THEN Append(UsageOf(lines, n - 1), ParsedEntry(lines[n]))
    ELSE UsageOf(lines, n - 1)

\* what file f owes the collection: all its usage lines when it reads to the
\* end, those delivered before the error when its stream fails, nothing when
\* it is stale, not a log file, or its stat fails
Owed(f) ==
    LET file == logRoot.files[f]
    IN  IF file.status = "ok" THEN UsageOf(file.lines, Len(file.lines))
        ELSE IF file.status = "readFails" THEN UsageOf(file.lines, reader.pos[f])
        ELSE <<>>

RECURSIVE OwedUpTo(_)
OwedUpTo(f) == IF f = 0 THEN <<>> ELSE OwedUpTo(f - 1) \o Owed(f)

\* C24: reading the event log never fails: no exception leaves a line handler
\* or the directory probe; a line that does not parse is dropped and the other
\* lines of its file are kept; a file that cannot be read or inspected gives
\* nothing beyond what was read before it failed and the other files are kept
\* whole; a missing root directory yields the empty collection.
C24_ReadingNeverFails ==
    /\ reader.pc # "start" => ~reader.crashed
    /\ ReadDone =>
         IF logRoot.exists THEN merged = OwedUpTo(Len(logRoot.files))
         ELSE merged = <<>>

C24_Witness ==
    /\ ReadDone
    /\ \E f \in 1..Len(logRoot.files), g \in 1..Len(logRoot.files) :
         /\ logRoot.files[f].status = "ok"
         /\ \E n \in 1..Len(logRoot.files[f].lines) :
              logRoot.files[f].lines[n].kind = "malformed"
         /\ logRoot.files[g].status = "readFails"
         /\ reader.pos[g] = 0
         /\ Len(logRoot.files[g].lines) > 0
    /\ Len(merged) = 2

Occurrences(seq, x) == Cardinality({n \in 1..Len(seq) : seq[n] = x})

\* C25: the reads of the files share no state: whatever the order in which
\* they complete, the merged collection holds each usage-bearing line of each
\* recent readable file exactly once, and nothing else.
C25_EveryLineOnce ==
    (ReadDone /\ logRoot.exists) =>
        /\ \A f \in 1..Len(logRoot.files) :
             logRoot.files[f].status = "ok" =>
               \A n \in 1..Len(logRoot.files[f].lines) :
                 logRoot.files[f].lines[n].kind = "usage" =>
                   Occurrences(merged, ParsedEntry(logRoot.files[f].lines[n])) = 1
        /\ \A n \in 1..Len(merged) :
             \E f \in RecentFiles(logRoot.files) :
               \E l \in 1..Len(logRoot.files[f].lines) :
                 /\ logRoot.files[f].lines[l].kind = "usage"
                 /\ merged[n] = ParsedEntry(logRoot.files[f].lines[l])
                 /\ Occurrences(merged, merged[n]) = 1

C25_Witness ==
    /\ ReadDone
    /\ Len(reader.order) >= 2
    /\ reader.order[1] > reader.order[2]
    /\ \A f \in {reader.order[1], reader.order[2]} :
         /\ logRoot.files[f].status = "ok"
         /\ Len(Owed(f)) = 2
    /\ Len(merged) = 4

\* -------------------------------------------------------- SpecWeek claims
\* C23: for every reference time, weekStart is a Sunday 00:00 UTC with
\* weekStart <= now < weekEnd and weekEnd = weekStart + 7 days, that is the
\* most recent Sunday midnight at or before now.
C23_WeekContainsNow ==
    boundaries # NoWeek =>
        /\ boundaries.weekStart % WEEK = 0
        /\ boundaries.weekEnd = boundaries.weekStart + WEEK
        /\ boundaries.weekStart <= wkNow
        /\ wkNow < boundaries.weekEnd

C23_Witness ==
    /\ boundaries # NoWeek
    /\ wkNow % DAY # 0
    /\ (wkNow \div DAY) % 7 = 3
    /\ boundaries.weekStart = WEEK

\* ------------------------------------------------------- SpecCache claims
GoodCache(file) == file.body = "usage" /\ file.written = CHUNKS

\* C30: the cache file changes only by the rename of the temp file of one
\* invocation, and that file is non-empty, complete JSON with a usable
\* five_hour; a rejected fetch result leaves the cache as it was and its temp
\* file removed; so the cache, and what any invocation prints, is never an
\* error response or a partly written file.
C30_CacheOnlyReplacedByValidRename ==
    /\ [](/\ cache # Absent => GoodCache(cache)
          /\ \A p \in Procs :
               proc[p].out # Absent =>
                   \/ GoodCache(proc[p].out)
                   \/ proc[p].out = File("{}", CHUNKS, p))
    /\ [][/\ cache' # cache =>
               \E p \in Procs :
                  /\ proc[p].pc = "rename" /\ proc'[p].pc = "done"
                  /\ cache' = temp[p]
                  /\ GoodCache(temp[p])
                  /\ temp'[p] = Absent
          /\ \A p \in Procs :
               (proc[p].pc = "validate" /\ proc'[p].pc = "remove") => cache' = cache
          /\ \A p \in Procs :
               (proc[p].pc = "remove" /\ proc'[p].pc = "done")
                   => (cache' = cache /\ temp'[p] = Absent)]_vars

C30_Witness ==
    \E p \in Procs, q \in Procs :
        /\ cache = File("usage", CHUNKS, p)
        /\ proc[p].pc = "done"
        /\ proc[q].pc = "done"
        /\ proc[q].fetched = "error"
        /\ temp[q] = Absent

\* ------------------------------------------------ Spec claims: the prompt
\* C26: the authentication prompt is shown at most once between two
\* successful polls (and before the first), whatever starts the polls, and a
\* no-token poll that follows a successful one with no prompt in between
\* shows it.
C26_PromptOncePerNoTokenRun ==
    /\ [](prompts <= 1)
    /\ [][(last'.op = "no_token" /\ fetching' < fetching /\ prompts = 0)
              => prompts' = 1]_vars

\* ------------------------------------------------------- SpecSound claims
\* C27: for each sound type, two playbacks of that type are never less than
\* the cooldown apart, however the play() calls interleave.
C27_PlaybacksCooldownApart ==
    \A soundType \in SOUND_TYPE : ~shist.close[soundType]

InWarningBand(utilization) ==
    /\ utilization < LIMIT_UTILIZATION
    /\ utilization >= WARNING_UTILIZATION \/ utilization >= sconfig.warningThreshold

\* play(soundType) is not refused by the configuration, for a missing file
\* or for cooldown
CanSound(soundType) ==
    /\ Enabled(sconfig, soundType)
    /\ sconfig.soundFile = "found"
    /\ \A at \in Spawns(player, soundType) \ {sclock} : sclock - at >= COOLDOWN_MS

\* C28: a warning-band reading that reaches checkRateLimitThreshold more than
\* the cooldown after a reading at or above 100 triggers the warning sound.
C28_WarningAfterLimit ==
    (/\ slast.reading # Null
     /\ InWarningBand(slast.reading)
     /\ shist.limitAt # Null
     /\ sclock - shist.limitAt > COOLDOWN_MS
     /\ CanSound("warning"))
        => slast.spawned = "warning"

\* C29: a successful poll that reports session or weekly-all utilization at
\* or above 100, with limit sounds enabled and not in cooldown, triggers the
\* limit sound.
C29_LimitSoundWhenLimitReached ==
    (/\ slast.op = "poll"
     /\ slast.polled >= LIMIT_UTILIZATION
     /\ CanSound("limit"))
        => slast.spawned = "limit"

\* ------------------------------------------------ Spec claims: the timers
UserEvents == {"activate", "manualRefresh", "configChange"}
TimerExpiries == {"refreshTick", "resumeTimer"}

\* C31: without user or configuration events two consecutive fetchUsage
\* calls are separated by a timer expiry: a fetchUsage call is issued only by
\* a refresh-interval tick, by the resume timer, by a user or configuration
\* event or by the prediction callback of the sync interval, never by the
\* handling of a poll's result, whatever the snapshot.
C31_FetchOnlyOnTimerOrEvent ==
    [][last'.issued > 0 =>
          last'.op \in TimerExpiries \cup UserEvents \cup {"predictionUpdate"}]_vars

ResumeArmed ==
    /\ limitResumeTimeout \notin {Null, Stale}
    /\ BagIn(limitResumeTimeout, resumeTimers)

\* C32: between activation and deactivation, whenever no poll is in flight
\* the refresh interval or the resume timer is armed, and whenever a
\* LimitReset is held the resume timer is armed.
C32_PollingNeverStranded ==
    phase = "active" =>
        /\ InFlight = 0 => (refreshTimers > 0 \/ resumeTimers # EmptyBag)
        /\ limitReset # NoLimit => ResumeArmed

C32_Witness ==
    /\ phase = "active"
    /\ InFlight = 0
    /\ limitReset # NoLimit
    /\ refreshTimers = 0
    /\ ResumeArmed
    /\ last.op = "poll"

\* C33: whenever the scheduler is Paused the status bar shows the
\* limit-reached display of the held LimitReset, polls that were in flight
\* when the pause began included.
C33_PausedShowsLimitReached ==
    Paused => display = View("limitReached", limitReset)

\* C34: once deactivate() has returned no refresh interval, resume timer or
\* countdown interval is armed, none becomes armed, and no fetchUsage call is
\* issued, even if a poll was in flight at deactivation.
C34_QuietAfterDeactivate ==
    /\ [](phase = "deactivated" =>
            /\ refreshTimers = 0 /\ ~refreshInterval
            /\ resumeTimers = EmptyBag
            /\ countdownTimers = 0 /\ ~countdownInterval)
    /\ [][phase = "deactivated" => last'.issued = 0]_vars

\* C35: at most one refresh interval, one resume timeout and one countdown
\* interval are live at any time, each the one whose handle the module
\* holds, and the countdown interval is live only while a LimitReset is held.
C35_OneTimerOfEachKind ==
    /\ refreshTimers <= 1 /\ (refreshInterval <=> refreshTimers = 1)
    /\ BagCardinality(resumeTimers) <= 1
    /\ resumeTimers # EmptyBag => ResumeArmed
    /\ countdownTimers <= 1 /\ (countdownInterval <=> countdownTimers = 1)
    /\ countdownTimers > 0 => limitReset # NoLimit

\* a breach is handled, and its timers armed, while another poll is in flight
C35_Witness ==
    /\ last.op = "poll"
    /\ last.seen.breached
    /\ limitReset = last.seen.found
    /\ countdownTimers = 1
    /\ BagCardinality(resumeTimers) = 1
    /\ limitResumeTimeout = limitReset.resetAt + RESUME_MARGIN
    /\ now > 0
    /\ InFlight = 1

\* -------------------------------------------------------- SpecSync claims
\* C36: a successful sync sets lastSyncedSessionTimestamp to the latest
\* timestamp among the sessions of its payload (and leaves it alone when the
\* payload carried none), and removes from the pending queue only sessions
\* that were sent: a session queued while the request was in flight stays
\* pending.
C36_SyncMarksWhatItSent ==
    [][synclast'.op = "success" =>
          /\ lastSyncedSessionTimestamp' =
                IF synclast'.payload # <<>>
                THEN MostRecentSession(synclast'.payload, 2, synclast'.payload[1])
                ELSE lastSyncedSessionTimestamp
          /\ \A session \in Range(pendingSessions) \ Range(synclast'.payload) :
                session \in Range(pendingSessions')]_vars

\* C37: lastSyncedSessionTimestamp never advances past a usage line that no
\* sync payload has carried, also when more lines than the per-call limit
\* are waiting.
C37_NoSessionSkipped ==
    \A session \in 1..Len(sessionLog) :
        (lastSyncedSessionTimestamp # Null /\ session <= lastSyncedSessionTimestamp)
            => session \in sent

FamilySum(f) ==
    summary.modelBreakdown["opus"][f] + summary.modelBreakdown["sonnet"][f]
        + summary.modelBreakdown["haiku"][f] + summary.modelBreakdown["unknown"][f]

\* the cost of one event at the prices of its model family
EventCost(i) ==
    calculateCost(UEntries[i].input_tokens, UEntries[i].output_tokens,
                  MODEL_PRICING[getModelFamily(UEntries[i].model)].inputPerMTok,
                  MODEL_PRICING[getModelFamily(UEntries[i].model)].outputPerMTok)

RECURSIVE CostOver(_)
CostOver(I) ==
    IF I = {} THEN 0
    ELSE LET i == CHOOSE j \in I : TRUE IN EventCost(i) + CostOver(I \ {i})

\* C39: the family breakdown accounts for exactly the events of [weekStart,
\* now]: the families' input plus output tokens add up to weeklyTokens, their
\* request counts to the number of those events, and totalCost is the cost
\* of those events alone, so an event outside the calendar week adds no cost
\* even when it lies in the rolling window.
C39_BreakdownIsTheWeek ==
    Summarized =>
        /\ FamilySum("inputTokens") + FamilySum("outputTokens") = summary.weeklyTokens
        /\ FamilySum("requests") = Cardinality(InWeek)
        /\ summary.totalCost = CostOver(InWeek)

\* an event of last week that lies in the rolling window and has a cost
C39_Witness ==
    /\ Summarized
    /\ \E i \in InWindow \ InWeek : EventCost(i) > 0
    /\ InWeek # {}
    /\ summary.totalCost > 0
    /\ summary.windowTokens > summary.weeklyTokens

\* C40: with the default one-hour sample window the rate sample is contained
\* in the rolling window: usageRate.sampleTokens <= windowTokens.
C40_SampleWithinWindow ==
    Summarized => summary.usageRate.sampleTokens <= summary.windowTokens

====
